---- MODULE Spec2Model ----
(***************************************************************************)
(* Model of the twitch-translator core: the HLS ingestor of ingest/mod.rs  *)
(* (playlist sequence tracking, jitter buffer, poller and fetcher tasks)   *)
(* and the TTS fallback latch of tts/fallback.rs.                          *)
(*                                                                         *)
(* Sequence numbers are u64 in the source; the model works far below       *)
(* u64::MAX (MaxSeq0 + MaxSegs), so integer addition is exact.             *)
(***************************************************************************)
EXTENDS Integers, Sequences, FiniteSets, TLC

\* ------------------------------------------------------------------ bounds
MaxSeq0 == 3        \* largest EXT-X-MEDIA-SEQUENCE a poll may carry
MaxSegs == 3        \* largest number of segments in one media playlist
MaxBacklog == 2     \* largest configured initial_backlog_segments
RunMaxSeq0 == 2     \* largest media_sequence polled by the running ingestor
RunMaxSegs == 2     \* largest playlist polled by the running ingestor
MaxCap == 2         \* largest jitter buffer capacity
MaxPush == 4        \* pushes the stand-alone jitter buffer producer makes
MaxNow == 600       \* last instant (seconds) the clock reaches
TickStep == 150     \* seconds the clock advances per tick
NumCallers == 2     \* concurrent synthesize callers

\* Option<u64>::None for next_sequence / Option<Instant>::None for exhausted_at
None == -1

VARIABLES
    \* ---- MediaPlaylistState (ingest/mod.rs)
    next_sequence,              \* Option<u64>
    initial_backlog_segments,   \* usize
    \* ---- last call of extract_new_segments (pure-function harness)
    xPre,                       \* next_sequence before the call
    xMp,                        \* the playlist passed in
    xOut,                       \* the Result returned
    \* ---- TwitchHlsIngestor::run
    cap,                        \* opts.jitter_buffer_segments
    buf,                        \* JitterBuffer.inner
    permit,                     \* JitterBuffer.notify: stored permit
    pollerPc, pending,          \* poller task position, segments left to push
    fetcherPc, seg,             \* fetcher task position, segment in hand
    chan, closed,               \* mpsc channel contents, receiver dropped
    shutdown,                   \* Arc<AtomicBool>
    lastSent,                   \* sequence of the last item tx.send accepted
    lastPollErr, lastFetchErr,  \* outcome of the latest poll / fetch
    \* ---- stand-alone JitterBuffer harness
    jProdPc, jConsPc, nPushed, lastPopped,
    \* ---- FallbackTtsClient
    quota_exhausted,            \* FallbackState.quota_exhausted
    exhausted_at,               \* FallbackState.exhausted_at (seconds, or None)
    atLock,                     \* holder of the exhausted_at mutex, 0 if free
    now,                        \* Instant::now(), in seconds
    call,                       \* per caller: position in synthesize, locals
    resetPc,                    \* position of the reset_quota_flag caller
    \* ---- retry_with_backoff (util/retry.rs) and the calls made through it
    rCfg,                       \* the RetryConfig passed in
    rPc,                        \* position in retry_with_backoff
    rAttempt,                   \* loop variable attempt
    rHist,                      \* per invocation of f: response and result
    rSleeps,                    \* the delays slept so far, in ms
    rLastError,                 \* last_error
    rResult,                    \* what retry_with_backoff returned
    rAudio,                     \* what ElevenLabs synthesize made of the bytes
    \* ---- is_http_retryable (pure-function harness)
    hStatus,                    \* the status passed in
    hRetryable,                 \* the value returned
    \* ---- Pipeline::run (pipeline/mod.rs)
    pTarget,                    \* config.latency.target_ms
    pCaps,                      \* capacity of each of the five channels
    pDeepl,                     \* has_deepl_key
    pChan,                      \* contents of the five mpsc channels
    pPc,                        \* position of each of the six stage tasks
    pItem,                      \* the item each task has in hand, 0 if none
    pNext,                      \* next item the ingestor will emit
    pDropped,                   \* items dropped after a per-item error
    pPlayed,                    \* items handed to playback.play, in order
    pRun,                       \* what Pipeline::run returned
    pSounding,                  \* clips appended to a sink, still playing
    \* ---- AudioPlaybackSink and its clones (playback/audio.rs)
    aDevice,                    \* output_device_name
    aDisabled,                  \* disabled
    aDetails,                   \* disabled_details (OnceLock)
    aStream,                    \* output_stream: 0 if empty, else the open
    aAttempts,                  \* output_stream_open_attempts
    aLast,                      \* blank_audio_warn.last (seconds, or None)
    aNow,                       \* Instant::now(), in seconds
    aPc,                        \* per clone: position in play
    aClip,                      \* per clone: the TtsAudio passed to play
    aErr,                       \* per clone: the error connect_sink returned
    aRet,                       \* per clone: what its latest play returned
    aBegun,                     \* number of play calls made so far
    aOpens,                     \* every open_output_stream call, in order
    aAppends,                   \* every sink.append, in order
    aCalls,                     \* every should_log call, in order
    \* ---- pure-function harness of the remaining components
    fArgs,                      \* the arguments of the call
    fResult,                    \* the value returned, NotCalled before
    \* ---- MediaPlaylistPoller (ingest/mod.rs)
    next_sleep                  \* Duration in ms

extractVars == <<xPre, xMp, xOut>>
stateVars == <<next_sequence, initial_backlog_segments>>
bufVars == <<cap, buf, permit>>
runVars == <<pollerPc, pending, fetcherPc, seg, chan, closed, shutdown,
             lastSent, lastPollErr, lastFetchErr>>
jitterVars == <<jProdPc, jConsPc, nPushed, lastPopped>>
ttsVars == <<quota_exhausted, exhausted_at, atLock, now, call, resetPc>>
retryVars ==
    <<rCfg, rPc, rAttempt, rHist, rSleeps, rLastError, rResult, rAudio>>
statusVars == <<hStatus, hRetryable>>
\* the components that do not share state with the ingestor or the TTS latch
pipeVars ==
    <<pTarget, pCaps, pDeepl, pChan, pPc, pItem, pNext, pDropped, pPlayed,
      pRun, pSounding>>
\* the pipeline and the playback sink
audioVars ==
    <<aDevice, aDisabled, aDetails, aStream, aAttempts, aLast, aNow, aPc,
      aClip, aErr, aRet, aBegun, aOpens, aAppends, aCalls>>
callVars == <<fArgs, fResult>>
pollVars == <<next_sleep>>
moreVars == <<pipeVars, audioVars, callVars, pollVars>>
laterVars == <<retryVars, statusVars, moreVars>>
vars == <<extractVars, stateVars, bufVars, runVars, jitterVars, ttsVars,
          laterVars>>

\* ------------------------------------------------------------ helpers
Max(a, b) == IF a >= b THEN a ELSE b
Min(a, b) == IF a <= b THEN a ELSE b
\* usize::saturating_sub
SaturatingSub(a, b) == IF a >= b THEN a - b ELSE 0
Last(s) == s[Len(s)]
RECURSIVE SeqFrom(_, _)
\* the ascending sequence lo, lo+1, ..., hi (empty when lo > hi)
SeqFrom(lo, hi) == IF lo > hi THEN <<>> ELSE <<lo>> \o SeqFrom(lo + 1, hi)

\* ------------------------------------------------- media playlists (input)
\* A parsed MediaPlaylist: media_sequence, number of segments, and the set of
\* segment positions (0-based) whose URI does not resolve against the base URL.
MediaPlaylists ==
    { [media_sequence |-> s, n |-> k, badUri |-> b] :
        s \in 0..MaxSeq0, k \in 0..MaxSegs, b \in SUBSET (0..(MaxSegs - 1)) }
WellFormed(mp) == mp.badUri \subseteq 0..(mp.n - 1)
\* the playlists the running ingestor is polled with
RunPlaylists ==
    { mp \in MediaPlaylists :
        /\ WellFormed(mp)
        /\ mp.media_sequence <= RunMaxSeq0 /\ mp.n <= RunMaxSegs }

\* the fetcher holds no segment
NoSeg == [sequence |-> None, idx |-> None]

\* SegmentInfo: absolute sequence and the playlist position its URL came from
SegmentInfo(seq0, i) == [sequence |-> seq0 + i, idx |-> i]

\* ---------------------------------- MediaPlaylistState::extract_new_segments
\* Variant: the Cold branch without the clamp of the backlog to at least 1.
StartSequenceNoClamp(next, backlog, mp) ==
    IF next = None
    THEN mp.media_sequence + SaturatingSub(mp.n, backlog)
    ELSE IF next < mp.media_sequence THEN mp.media_sequence ELSE next

\* Variant: a Live poll always restarts at the start of the window.
StartSequenceRestart(next, backlog, mp) ==
    IF next = None
    THEN mp.media_sequence + SaturatingSub(mp.n, Max(backlog, 1))
    ELSE mp.media_sequence

\* The match on self.next_sequence (lines 345-356): where emission starts.
StartSequence(next, backlog, mp) ==
    IF next = None
    THEN mp.media_sequence + SaturatingSub(mp.n, Max(backlog, 1))
    ELSE IF next < mp.media_sequence THEN mp.media_sequence ELSE next

\* Variant: the skip test off by one (seq + 1 < next), re-emitting the last one.
KeptOneBelow(mp, next) ==
    { i \in 0..(mp.n - 1) : mp.media_sequence + i + 1 >= next }

\* Variant: the skip test is seq <= next, losing the segment at next.
KeptStrict(mp, next) == { i \in 0..(mp.n - 1) : mp.media_sequence + i > next }

\* The positions the loop (lines 360-372) does not skip.
Kept(mp, next) == { i \in 0..(mp.n - 1) : mp.media_sequence + i >= next }

\* Result of the call: the new next_sequence and Ok(out) / Err.
ExtractNewSegments(next, backlog, mp) ==
    IF mp.n = 0
    THEN [next |-> next, ok |-> TRUE, out |-> <<>>]
    ELSE LET start == StartSequence(next, backlog, mp)
             kept == Kept(mp, start)
         IN IF kept \cap mp.badUri # {}
            THEN \* base.join(..)? returns early: nothing is emitted and the
                 \* trailing update of next_sequence is not reached
                 [next |-> start, ok |-> FALSE, out |-> <<>>]
            ELSE LET lo == IF kept = {} THEN mp.n
                           ELSE CHOOSE i \in kept : \A j \in kept : i <= j
                     out == [k \in 1..(mp.n - lo) |->
                                SegmentInfo(mp.media_sequence, lo + k - 1)]
                 IN [next |-> IF out = <<>> THEN start
                              ELSE Last(out).sequence + 1,
                     ok |-> TRUE, out |-> out]

\* ------------------------------------------------------------ JitterBuffer
\* Variant: a full buffer refuses the new item instead of dropping the oldest.
PushDropNewest(q, item, c) == IF Len(q) >= c THEN q ELSE Append(q, item)

\* push_drop_oldest, the part under the mutex (lines 263-268): push_back,
\* then pop_front while len > cap.
PushDropOldest(q, item, c) ==
    LET q1 == Append(q, item)
    IN IF Len(q1) > c THEN SubSeq(q1, Len(q1) - c + 1, Len(q1)) ELSE q1

\* Variant: wakes a parked waiter but stores no permit (notify_waiters).
NotifyWaitersOnly(p, parked) ==
    IF parked THEN [permit |-> p, wake |-> TRUE]
    ELSE [permit |-> p, wake |-> FALSE]

\* self.notify.notify_one() (line 269): a parked waiter is woken, otherwise
\* one permit is stored for the next notified().await.
NotifyOne(p, parked) ==
    IF parked THEN [permit |-> p, wake |-> TRUE]
    ELSE [permit |-> TRUE, wake |-> FALSE]

\* self.notify.notified().await (line 280): consumes a stored permit and
\* returns at once, otherwise parks the caller until notify_one wakes it.
NotifiedAwait(p) ==
    IF p THEN [permit |-> FALSE, pc |-> "lock"]
    ELSE [permit |-> p, pc |-> "parked"]

\* ------------------------------------------------------------ idle values
\* Each specification drives one component and holds the others at these.
NoPlaylist == [media_sequence |-> 0, n |-> 0, badUri |-> {}]
NoResult == [ok |-> TRUE, out |-> <<>>]
ExtractIdle == xPre = None /\ xMp = NoPlaylist /\ xOut = NoResult
StateIdle == next_sequence = None /\ initial_backlog_segments = 1
BufIdle == cap = 1 /\ buf = <<>> /\ permit = FALSE
RunIdle ==
    /\ pollerPc = "idle" /\ pending = <<>> /\ fetcherPc = "idle" /\ seg = NoSeg
    /\ chan = <<>> /\ closed = FALSE /\ shutdown = FALSE /\ lastSent = None
    /\ lastPollErr = FALSE /\ lastFetchErr = FALSE
JitterIdle ==
    /\ jProdPc = "idle" /\ jConsPc = "idle" /\ nPushed = 0 /\ lastPopped = 0
TtsIdle ==
    /\ quota_exhausted = FALSE /\ exhausted_at = None /\ atLock = 0 /\ now = 0
    /\ call = <<>> /\ resetPc = "idle"
\* no error / no result yet (Option::None, or Ok carrying no error)
NoError == "none"
NoOutcome == [kind |-> "none", err |-> NoError]
NoConfig ==
    [max_attempts |-> 0, initial_delay |-> 0,
     backoff_multiplier |-> [num |-> 1, den |-> 1], max_delay |-> 0]
RetryIdle ==
    /\ rCfg = NoConfig /\ rPc = "idle" /\ rAttempt = 0 /\ rHist = <<>>
    /\ rSleeps = <<>> /\ rLastError = NoError /\ rResult = NoOutcome
    /\ rAudio = "none"
StatusIdle == hStatus = 0 /\ hRetryable = "idle"
PipeIdle ==
    /\ pTarget = 0 /\ pCaps = <<>> /\ pDeepl = FALSE /\ pChan = <<>>
    /\ pPc = <<>> /\ pItem = <<>> /\ pNext = 0 /\ pDropped = {}
    /\ pPlayed = <<>> /\ pRun = "idle" /\ pSounding = {}
AudioIdle ==
    /\ aDevice = "" /\ aDisabled = FALSE /\ aDetails = <<>> /\ aStream = 0
    /\ aAttempts = 0 /\ aLast = None /\ aNow = 0 /\ aPc = <<>>
    /\ aClip = <<>> /\ aErr = <<>> /\ aRet = <<>> /\ aBegun = 0
    /\ aOpens = <<>> /\ aAppends = <<>> /\ aCalls = <<>>
NotCalled == [ok |-> FALSE, value |-> "not called"]
CallIdle == fArgs = <<>> /\ fResult = NotCalled
PollIdle == next_sleep = None
MoreIdle == PipeIdle /\ AudioIdle /\ CallIdle /\ PollIdle
LaterIdle == RetryIdle /\ StatusIdle /\ MoreIdle

\* ================================================================
\* Specification SpecExtract: successive calls of extract_new_segments
\* on one MediaPlaylistState, each with an arbitrary parsed playlist.
\* ================================================================
InitExtract ==
    /\ next_sequence = None
    /\ initial_backlog_segments \in 0..MaxBacklog
    /\ ExtractIdle /\ BufIdle /\ RunIdle /\ JitterIdle /\ TtsIdle /\ LaterIdle

ExtractCall(mp) ==
    LET r == ExtractNewSegments(next_sequence, initial_backlog_segments, mp)
    IN /\ xPre' = next_sequence
       /\ xMp' = mp
       /\ xOut' = [ok |-> r.ok, out |-> r.out]
       /\ next_sequence' = r.next
       /\ UNCHANGED <<initial_backlog_segments, bufVars, runVars, jitterVars,
                      ttsVars, laterVars>>

NextExtract == \E mp \in MediaPlaylists : WellFormed(mp) /\ ExtractCall(mp)

SpecExtract == InitExtract /\ [][NextExtract]_vars

\* sequences of the segments returned by the last call
OutSequences == [k \in 1..Len(xOut.out) |-> xOut.out[k].sequence]
\* the last call was made Live on a playlist that had not slid past next
LiveInWindow == xPre # None /\ xMp.media_sequence <= xPre
\* the last call was made Live on a playlist that had slid past next
LiveSlid == xPre # None /\ xPre < xMp.media_sequence
\* the last call was the first non-empty playlist of a Cold state
ColdFirst == xPre = None /\ xMp.n > 0
\* one past the last sequence of the playlist of the last call
WindowEnd == xMp.media_sequence + xMp.n

\* C2 (as stated): a Live poll whose media_sequence does not exceed the
\* tracked next_sequence emits exactly the sequences
\* [next_sequence, media_sequence + n) in ascending order and leaves
\* next_sequence at last emitted + 1.
C2_Original ==
    LiveInWindow =>
        /\ OutSequences = SeqFrom(xPre, WindowEnd - 1)
        /\ next_sequence = IF OutSequences = <<>> THEN xPre
                           ELSE Last(OutSequences) + 1

\* C2 (amended): the same, for a call that returns Ok; a call that returns
\* Err (a segment URI in that range does not resolve) emits nothing and
\* leaves next_sequence unchanged, so the range is emitted by a later poll.
C2_InWindowEmission ==
    LiveInWindow =>
        /\ xOut.ok =>
              /\ OutSequences = SeqFrom(xPre, WindowEnd - 1)
              /\ next_sequence = IF OutSequences = <<>> THEN xPre
                                 ELSE Last(OutSequences) + 1
        /\ ~xOut.ok => xOut.out = <<>> /\ next_sequence = xPre

\* C2 witness: a Live poll overlapping the previous window emitted only the
\* new tail of the playlist.
C2_Witness ==
    /\ LiveInWindow /\ xOut.ok
    /\ xMp.media_sequence < xPre
    /\ Len(xOut.out) >= 1 /\ Len(xOut.out) < xMp.n
    /\ next_sequence = WindowEnd

\* C3 (as stated): a Live poll whose playlist slid past next_sequence returns
\* Ok with every segment of the playlist, the tracking resumed at
\* media_sequence (so next_sequence ends one past the window).
C3_Original ==
    LiveSlid =>
        /\ xOut.ok
        /\ OutSequences = SeqFrom(xMp.media_sequence, WindowEnd - 1)
        /\ next_sequence = WindowEnd

\* once tracked, next_sequence never decreases and no call returns a
\* sequence below the next_sequence it started from
NeverEmitsBelowNext ==
    [][next_sequence # None =>
          /\ next_sequence' >= next_sequence
          /\ \A k \in 1..Len(xOut'.out) :
                xOut' # xOut => xOut'.out[k].sequence >= next_sequence]_vars

\* C3 (amended): for a non-empty slid playlist the call resets next_sequence
\* to media_sequence; if every URI resolves it returns Ok with all n
\* segments and next_sequence = media_sequence + n, otherwise it returns Err
\* with nothing emitted and next_sequence = media_sequence. An empty
\* playlist changes nothing. Sequences below next_sequence are never
\* emitted later.
C3_SlidEmission ==
    LiveSlid =>
        /\ xMp.n = 0 => xOut.ok /\ xOut.out = <<>> /\ next_sequence = xPre
        /\ xMp.n > 0 /\ xOut.ok =>
              /\ OutSequences = SeqFrom(xMp.media_sequence, WindowEnd - 1)
              /\ next_sequence = WindowEnd
        /\ xMp.n > 0 /\ ~xOut.ok =>
              xOut.out = <<>> /\ next_sequence = xMp.media_sequence

\* C3: the sliding-window jump as amended above, together with the skipped
\* sequences never being emitted later.
C3_SlidingWindowJump == []C3_SlidEmission /\ NeverEmitsBelowNext

\* C3 witness: the window slid at least two sequences past next and the whole
\* playlist was emitted.
C3_Witness ==
    /\ LiveSlid /\ xOut.ok /\ xMp.n >= 2
    /\ xPre + 2 <= xMp.media_sequence
    /\ Len(xOut.out) = xMp.n

\* C4 (as stated): the first non-empty playlist of a Cold state starts at
\* media_sequence + max(0, n - initial_backlog_segments) and emits exactly
\* min(n, initial_backlog_segments) segments, for every backlog including 0.
C4_Original ==
    ColdFirst =>
        /\ Len(xOut.out) = Min(xMp.n, initial_backlog_segments)
        /\ xOut.out # <<>> =>
              xOut.out[1].sequence =
                xMp.media_sequence
                  + Max(0, xMp.n - initial_backlog_segments)

\* the backlog the Cold branch works with
EffectiveBacklog == Max(initial_backlog_segments, 1)

\* C4 (amended): with b = max(initial_backlog_segments, 1), the first
\* non-empty Cold playlist starts at media_sequence + max(0, n - b); a call
\* that returns Ok emits exactly the min(n, b) last segments, a call that
\* returns Err emits nothing and leaves next_sequence at that start.
C4_ColdStart ==
    ColdFirst =>
        LET start == xMp.media_sequence + Max(0, xMp.n - EffectiveBacklog)
        IN /\ xOut.ok =>
                /\ Len(xOut.out) = Min(xMp.n, EffectiveBacklog)
                /\ OutSequences = SeqFrom(start, WindowEnd - 1)
                /\ next_sequence = WindowEnd
           /\ ~xOut.ok => xOut.out = <<>> /\ next_sequence = start

\* C4 witness: Cold starts with a backlog of 0 (one segment emitted), with a
\* backlog smaller than n, or with one larger than n.
C4_Witness ==
    /\ ColdFirst /\ xOut.ok
    /\ initial_backlog_segments = 0
    /\ xMp.n >= 2 /\ Len(xOut.out) = 1

\* ================================================================
\* Specification SpecJitter: one producer calling push_drop_oldest and
\* one consumer calling pop on a JitterBuffer; items are numbered in
\* arrival order 1, 2, ...
\* ================================================================
InitJitter ==
    /\ cap \in 1..MaxCap
    /\ buf = <<>> /\ permit = FALSE
    /\ jProdPc = "idle" /\ jConsPc = "lock" /\ nPushed = 0 /\ lastPopped = 0
    /\ ExtractIdle /\ StateIdle /\ RunIdle /\ TtsIdle /\ LaterIdle

\* push_drop_oldest up to drop(g)
JPush ==
    /\ jProdPc = "idle" /\ nPushed < MaxPush
    /\ buf' = PushDropOldest(buf, nPushed + 1, cap)
    /\ nPushed' = nPushed + 1
    /\ jProdPc' = "notify"
    /\ UNCHANGED <<cap, permit, jConsPc, lastPopped>>
    /\ UNCHANGED <<extractVars, stateVars, runVars, ttsVars, laterVars>>

\* push_drop_oldest: notify_one after the lock is released
JNotify ==
    /\ jProdPc = "notify"
    /\ LET r == NotifyOne(permit, jConsPc = "parked")
       IN /\ permit' = r.permit
          /\ jConsPc' = IF r.wake THEN "lock" ELSE jConsPc
    /\ jProdPc' = "idle"
    /\ UNCHANGED <<cap, buf, nPushed, lastPopped>>
    /\ UNCHANGED <<extractVars, stateVars, runVars, ttsVars, laterVars>>

\* pop: lock, pop_front, return Some(v) if there is one (lines 275-279)
JPopLock ==
    /\ jConsPc = "lock"
    /\ IF buf # <<>>
       THEN /\ lastPopped' = Head(buf)
            /\ buf' = Tail(buf)
            /\ jConsPc' = "lock"      \* returned; the caller calls pop again
       ELSE /\ jConsPc' = "await"
            /\ UNCHANGED <<buf, lastPopped>>
    /\ UNCHANGED <<cap, permit, jProdPc, nPushed>>
    /\ UNCHANGED <<extractVars, stateVars, runVars, ttsVars, laterVars>>

\* pop: notified().await after the lock is released (line 280)
JPopAwait ==
    /\ jConsPc = "await"
    /\ LET r == NotifiedAwait(permit)
       IN permit' = r.permit /\ jConsPc' = r.pc
    /\ UNCHANGED <<cap, buf, jProdPc, nPushed, lastPopped>>
    /\ UNCHANGED <<extractVars, stateVars, runVars, ttsVars, laterVars>>

NextJitter == JPush \/ JNotify \/ JPopLock \/ JPopAwait

SpecJitter == InitJitter /\ [][NextJitter]_vars

\* The tasks are scheduled whenever they can run: notify_one follows the
\* push without a suspension point, and the consumer runs when not parked.
SpecJitterFair ==
    SpecJitter /\ WF_vars(JNotify) /\ WF_vars(JPopLock) /\ WF_vars(JPopAwait)

\* the buffer holds at most cap items, and they are the newest pushed items
\* not yet popped, in arrival order
BufferIsNewestWindow ==
    /\ Len(buf) <= cap
    /\ buf = SeqFrom(nPushed - Len(buf) + 1, nPushed)
    /\ buf # <<>> => Head(buf) > lastPopped

\* a push onto a full buffer drops exactly the oldest item; a pop returns
\* the oldest remaining item
PushPopStep ==
    /\ nPushed' # nPushed =>
          buf' = IF Len(buf) = cap THEN Tail(buf) \o <<nPushed'>>
                 ELSE buf \o <<nPushed'>>
    /\ lastPopped' # lastPopped =>
          buf # <<>> /\ lastPopped' = Head(buf) /\ buf' = Tail(buf)

\* C5: after any sequence of push_drop_oldest and pop the buffer holds at most
\* cap items; a push onto a full buffer discards exactly the oldest item and
\* keeps the newest cap items in arrival order; pop returns the oldest
\* remaining item.
C5_BoundedKeepNewest == []BufferIsNewestWindow /\ [][PushPopStep]_vars

\* C5 witness: the buffer is full, an item has been dropped by a push onto
\* the full buffer and an item has been popped.
C5_Witness ==
    /\ Len(buf) = cap /\ lastPopped >= 1
    /\ nPushed - lastPopped > cap

\* C6: a pop returns only with an item taken from the buffer, and no wake-up
\* is lost: a blocked pop does not stay blocked while the buffer is
\* non-empty, and every push is eventually observed by the
\* consumer (the item, or a newer one if it was dropped, is popped).
C6_NoLostWakeup ==
    /\ [][lastPopped' # lastPopped =>
            buf # <<>> /\ lastPopped' = Head(buf)]_vars
    /\ (jConsPc \in {"await", "parked"} /\ buf # <<>>) ~> (jConsPc = "lock")
    /\ \A k \in 1..MaxPush : (nPushed >= k) ~> (lastPopped >= k)

\* C6 witness: the push happened between the consumer's unlock and its
\* notified().await, so the stored permit is what wakes it.
C6_Witness ==
    jConsPc = "await" /\ buf # <<>> /\ permit

\* ================================================================
\* Specification SpecRun: TwitchHlsIngestor::run after the initial
\* resolution: the poller task, the fetcher task, the jitter buffer
\* between them, the emit channel and its receiver.
\* ================================================================
InitRun ==
    /\ next_sequence = None
    /\ initial_backlog_segments \in 0..MaxBacklog
    /\ cap \in 1..MaxCap
    /\ buf = <<>> /\ permit = FALSE
    /\ pollerPc = "check" /\ pending = <<>>
    /\ fetcherPc = "check" /\ seg = NoSeg
    /\ chan = <<>> /\ closed = FALSE /\ shutdown = FALSE
    /\ lastSent = None /\ lastPollErr = FALSE /\ lastFetchErr = FALSE
    /\ ExtractIdle /\ JitterIdle /\ TtsIdle /\ LaterIdle

\* Variant: the poller gives up on a failed poll.
PollerOnErrBreak == "done"

\* Err arm of the poller's match (lines 148-150): log, then sleep and loop.
PollerOnErr == "sleep"

\* Variant: the fetcher gives up on a failed fetch.
FetcherOnErrBreak == "done"

\* Err arm of the fetcher's match (lines 175-177): log, then loop.
FetcherOnErr == "check"

\* poller: if shutdown.load() { break } (lines 139-141)
PollerCheck ==
    /\ pollerPc = "check"
    /\ pollerPc' = IF shutdown THEN "done" ELSE "poll"
    /\ UNCHANGED <<pending, fetcherPc, seg, chan, closed, shutdown, lastSent,
                   lastPollErr, lastFetchErr>>
    /\ UNCHANGED <<extractVars, stateVars, bufVars, jitterVars, ttsVars,
                   laterVars>>

\* poller: poll_once fails before extract_new_segments is reached (HTTP
\* error, parse error, not a media playlist)
PollFail ==
    /\ pollerPc = "poll"
    /\ pollerPc' = PollerOnErr
    /\ lastPollErr' = TRUE
    /\ UNCHANGED <<pending, fetcherPc, seg, chan, closed, shutdown, lastSent,
                   lastFetchErr>>
    /\ UNCHANGED <<extractVars, stateVars, bufVars, jitterVars, ttsVars,
                   laterVars>>

\* poller: poll_once reaches extract_new_segments with playlist mp
PollOnce(mp) ==
    /\ pollerPc = "poll"
    /\ LET r == ExtractNewSegments(next_sequence, initial_backlog_segments, mp)
       IN /\ next_sequence' = r.next
          /\ pending' = r.out
          /\ lastPollErr' = ~r.ok
          /\ pollerPc' = IF ~r.ok THEN PollerOnErr
                         ELSE IF r.out = <<>> THEN "sleep" ELSE "push"
    /\ UNCHANGED <<initial_backlog_segments, fetcherPc, seg, chan, closed,
                   shutdown, lastSent, lastFetchErr>>
    /\ UNCHANGED <<extractVars, bufVars, jitterVars, ttsVars, laterVars>>

\* poller: buf.push_drop_oldest(s) up to drop(g)
PollerPush ==
    /\ pollerPc = "push"
    /\ buf' = PushDropOldest(buf, Head(pending), cap)
    /\ pending' = Tail(pending)
    /\ pollerPc' = "notify"
    /\ UNCHANGED <<cap, permit, fetcherPc, seg, chan, closed, shutdown,
                   lastSent, lastPollErr, lastFetchErr>>
    /\ UNCHANGED <<extractVars, stateVars, jitterVars, ttsVars, laterVars>>

\* poller: notify_one of push_drop_oldest, then the next segment or the sleep
PollerNotify ==
    /\ pollerPc = "notify"
    /\ LET r == NotifyOne(permit, fetcherPc = "parked")
       IN /\ permit' = r.permit
          /\ fetcherPc' = IF r.wake THEN "lock" ELSE fetcherPc
    /\ pollerPc' = IF pending = <<>> THEN "sleep" ELSE "push"
    /\ UNCHANGED <<cap, buf, pending, seg, chan, closed, shutdown, lastSent,
                   lastPollErr, lastFetchErr>>
    /\ UNCHANGED <<extractVars, stateVars, jitterVars, ttsVars, laterVars>>

\* poller: sleep_until_next returns
PollerSleep ==
    /\ pollerPc = "sleep"
    /\ pollerPc' = "check"
    /\ UNCHANGED <<pending, fetcherPc, seg, chan, closed, shutdown, lastSent,
                   lastPollErr, lastFetchErr>>
    /\ UNCHANGED <<extractVars, stateVars, bufVars, jitterVars, ttsVars,
                   laterVars>>

\* fetcher: while !shutdown.load() (line 163)
FetcherCheck ==
    /\ fetcherPc = "check"
    /\ fetcherPc' = IF shutdown THEN "done" ELSE "lock"
    /\ UNCHANGED <<pollerPc, pending, seg, chan, closed, shutdown, lastSent,
                   lastPollErr, lastFetchErr>>
    /\ UNCHANGED <<extractVars, stateVars, bufVars, jitterVars, ttsVars,
                   laterVars>>

\* fetcher: buf.pop(): lock and pop_front
FetcherPopLock ==
    /\ fetcherPc = "lock"
    /\ IF buf # <<>>
       THEN seg' = Head(buf) /\ buf' = Tail(buf) /\ fetcherPc' = "fetch"
       ELSE fetcherPc' = "await" /\ UNCHANGED <<seg, buf>>
    /\ UNCHANGED <<cap, permit, pollerPc, pending, chan, closed, shutdown,
                   lastSent, lastPollErr, lastFetchErr>>
    /\ UNCHANGED <<extractVars, stateVars, jitterVars, ttsVars, laterVars>>

\* fetcher: buf.pop(): notified().await
FetcherPopAwait ==
    /\ fetcherPc = "await"
    /\ LET r == NotifiedAwait(permit)
       IN permit' = r.permit /\ fetcherPc' = r.pc
    /\ UNCHANGED <<cap, buf, pollerPc, pending, seg, chan, closed, shutdown,
                   lastSent, lastPollErr, lastFetchErr>>
    /\ UNCHANGED <<extractVars, stateVars, jitterVars, ttsVars, laterVars>>

\* fetcher: fetcher.fetch(seg) returns Ok(item) or Err
FetcherFetch(ok) ==
    /\ fetcherPc = "fetch"
    /\ lastFetchErr' = ~ok
    /\ IF ok THEN fetcherPc' = "send" /\ seg' = seg
       ELSE fetcherPc' = FetcherOnErr /\ seg' = NoSeg
    /\ UNCHANGED <<pollerPc, pending, chan, closed, shutdown, lastSent,
                   lastPollErr>>
    /\ UNCHANGED <<extractVars, stateVars, bufVars, jitterVars, ttsVars,
                   laterVars>>

\* fetcher: tx.send(item).await on an open channel with room
FetcherSend ==
    /\ fetcherPc = "send" /\ ~closed /\ Len(chan) < cap
    /\ chan' = Append(chan, seg)
    /\ lastSent' = seg.sequence
    /\ seg' = NoSeg
    /\ fetcherPc' = "check"
    /\ UNCHANGED <<pollerPc, pending, closed, shutdown, lastPollErr,
                   lastFetchErr>>
    /\ UNCHANGED <<extractVars, stateVars, bufVars, jitterVars, ttsVars,
                   laterVars>>

\* fetcher: tx.send(item).await fails, the receiver is gone (lines 170-173)
FetcherSendClosed ==
    /\ fetcherPc = "send" /\ closed
    /\ shutdown' = TRUE
    /\ seg' = NoSeg
    /\ fetcherPc' = "done"
    /\ UNCHANGED <<pollerPc, pending, chan, closed, lastSent, lastPollErr,
                   lastFetchErr>>
    /\ UNCHANGED <<extractVars, stateVars, bufVars, jitterVars, ttsVars,
                   laterVars>>

\* receiver (Ingestor::start, line 196): rx.recv() takes the oldest item
ReceiverRecv ==
    /\ ~closed /\ chan # <<>>
    /\ chan' = Tail(chan)
    /\ UNCHANGED <<pollerPc, pending, fetcherPc, seg, closed, shutdown,
                   lastSent, lastPollErr, lastFetchErr>>
    /\ UNCHANGED <<extractVars, stateVars, bufVars, jitterVars, ttsVars,
                   laterVars>>

\* receiver: rx is dropped (line 203: the packet sender failed, or the
\* future returned by start was dropped); queued items go with it
ReceiverDrop ==
    /\ ~closed
    /\ closed' = TRUE
    /\ chan' = <<>>
    /\ UNCHANGED <<pollerPc, pending, fetcherPc, seg, shutdown, lastSent,
                   lastPollErr, lastFetchErr>>
    /\ UNCHANGED <<extractVars, stateVars, bufVars, jitterVars, ttsVars,
                   laterVars>>

PollerStep ==
    \/ PollerCheck \/ PollFail
    \/ (\E mp \in RunPlaylists : PollOnce(mp))
    \/ PollerPush \/ PollerNotify \/ PollerSleep

FetcherStep ==
    \/ FetcherCheck \/ FetcherPopLock \/ FetcherPopAwait
    \/ (\E ok \in BOOLEAN : FetcherFetch(ok))
    \/ FetcherSend \/ FetcherSendClosed

NextRun == PollerStep \/ FetcherStep \/ ReceiverRecv \/ ReceiverDrop

SpecRun == InitRun /\ [][NextRun]_vars

\* Both tasks are spawned on the runtime and run whenever they can.
SpecRunFair == SpecRun /\ WF_vars(PollerStep) /\ WF_vars(FetcherStep)

\* C1: the items sent to the output channel carry strictly increasing
\* sequence numbers: each accepted send carries a sequence larger than every
\* sequence sent before it.
C1_StrictlyIncreasingSequence ==
    [][Len(chan') > Len(chan) =>
          Last(chan').sequence > lastSent]_vars

\* C1 witness: items were delivered with a gap between their sequences while
\* the jitter buffer was dropping.
C1_Witness ==
    /\ Len(chan) >= 2
    /\ chan[2].sequence > chan[1].sequence + 1
    /\ lastSent = Last(chan).sequence

\* C7: once the emit channel is closed by the receiver, both ingest tasks
\* eventually exit.
C7_TasksExitAfterClose ==
    closed ~> (pollerPc = "done" /\ fetcherPc = "done")

\* a task has ended
TaskEnded == pollerPc = "done" \/ fetcherPc = "done"

\* C8: no playlist-poll failure and no segment-fetch failure ends a task:
\* after a failed poll the poller goes on to its sleep and the next poll,
\* after a failed fetch the fetcher goes on to the next pop, and a task has
\* ended only if the emit channel was closed (and the shutdown flag set).
C8_FailuresAreNotFatal ==
    /\ [](TaskEnded => closed /\ shutdown)
    /\ [][/\ (pollerPc = "poll" /\ pollerPc' # "poll" /\ lastPollErr')
                => (pollerPc' = "sleep")
          /\ (fetcherPc = "fetch" /\ fetcherPc' # "fetch" /\ lastFetchErr')
                => (fetcherPc' = "check")]_vars

\* C8 witness: a poll and a fetch have failed, both tasks are still running
\* and an item was delivered afterwards.
C8_Witness ==
    /\ lastPollErr /\ pollerPc = "poll"
    /\ lastFetchErr /\ fetcherPc = "check" /\ chan # <<>>
    /\ ~closed

\* ================================================================
\* Specification SpecFallback: FallbackTtsClient shared by NumCallers
\* concurrent synthesize callers and one reset_quota_flag caller, with
\* a clock. Primary and secondary answer arbitrarily.
\* ================================================================
\* const RETRY_PRIMARY_INTERVAL (fallback.rs line 9), in seconds
RETRY_PRIMARY_INTERVAL == 300

Callers == 1..NumCallers
PrimaryResults == {"Ok", "Quota", "Other"}
LocalResults == {"Ok", "Err"}

\* a caller outside synthesize; the locals of a call that begins
NewCall(pc) ==
    [pc |-> pc, latched |-> FALSE, retry |-> FALSE, primary |-> "none",
     setFlag |-> "none", setAt |-> "none", result |-> "none"]

InitFallback ==
    /\ quota_exhausted = FALSE /\ exhausted_at = None     \* new()
    /\ atLock = 0 /\ now = 0 /\ resetPc = "idle"
    /\ call = [c \in Callers |-> NewCall("idle")]
    /\ ExtractIdle /\ StateIdle /\ BufIdle /\ RunIdle /\ JitterIdle /\ LaterIdle

\* Variant: a set timestamp allows the retry at once, whatever the elapsed time.
ShouldRetryNoCooldown(at, t) == at # None

\* lines 72-74: exhausted_at.map(|t| t.elapsed() >= INTERVAL).unwrap_or(false)
ShouldRetry(at, t) == at # None /\ t - at >= RETRY_PRIMARY_INTERVAL

\* Variant: the first QuotaExhausted is handled like any other error.
OnPrimaryClearNoLatch(r) ==
    CASE r = "Ok" -> [pc |-> "done", store |-> "none", result |-> "primaryOk"]
      [] r = "Quota" -> [pc |-> "local", store |-> "none", result |-> "none"]
      [] OTHER -> [pc |-> "local", store |-> "none", result |-> "none"]

\* Variant: every primary error sets the latch.
OnPrimaryClearAlwaysLatch(r) ==
    CASE r = "Ok" -> [pc |-> "done", store |-> "none", result |-> "primaryOk"]
      [] r = "Quota" -> [pc |-> "lockSet", store |-> "true", result |-> "none"]
      [] OTHER -> [pc |-> "lockSet", store |-> "true", result |-> "none"]

\* the match on the primary's result with the latch clear (lines 100-112)
OnPrimaryClear(r) ==
    CASE r = "Ok" -> [pc |-> "done", store |-> "none", result |-> "primaryOk"]
      [] r = "Quota" -> [pc |-> "lockSet", store |-> "true", result |-> "none"]
      [] OTHER -> [pc |-> "local", store |-> "none", result |-> "none"]

\* Variant: a successful retry returns the audio but leaves the latch set.
OnPrimaryRetryKeepLatch(r) ==
    CASE r = "Ok" -> [pc |-> "done", store |-> "none", result |-> "primaryOk"]
      [] r = "Quota" -> [pc |-> "lockRefresh", store |-> "none", result |-> "none"]
      [] OTHER -> [pc |-> "local", store |-> "none", result |-> "none"]

\* Variant: a repeated QuotaExhausted does not restart the cooldown.
OnPrimaryRetryNoRefresh(r) ==
    CASE r = "Ok" -> [pc |-> "lockClear", store |-> "false", result |-> "none"]
      [] r = "Quota" -> [pc |-> "local", store |-> "none", result |-> "none"]
      [] OTHER -> [pc |-> "local", store |-> "none", result |-> "none"]

\* the match on the primary's result on a retry (lines 79-94)
OnPrimaryRetry(r) ==
    CASE r = "Ok" -> [pc |-> "lockClear", store |-> "false", result |-> "none"]
      [] r = "Quota" -> [pc |-> "lockRefresh", store |-> "none", result |-> "none"]
      [] OTHER -> [pc |-> "local", store |-> "none", result |-> "none"]

\* quota_exhausted after a store of s ("none": no store)
Stored(s) == IF s = "true" THEN TRUE ELSE IF s = "false" THEN FALSE
             ELSE quota_exhausted

TtsOthersUnchanged ==
    UNCHANGED <<extractVars, stateVars, bufVars, runVars, jitterVars,
                laterVars>>

\* a caller enters synthesize
SynStart(c) ==
    /\ call[c].pc = "idle"
    /\ call' = [call EXCEPT ![c] = NewCall("load")]
    /\ UNCHANGED <<quota_exhausted, exhausted_at, atLock, now, resetPc>>
    /\ TtsOthersUnchanged

\* line 69: quota_exhausted.load()
SynLoad(c) ==
    /\ call[c].pc = "load"
    /\ call' = [call EXCEPT ![c].latched = quota_exhausted,
                            ![c].pc = IF quota_exhausted THEN "lockCheck"
                                      ELSE "primary"]
    /\ UNCHANGED <<quota_exhausted, exhausted_at, atLock, now, resetPc>>
    /\ TtsOthersUnchanged

\* exhausted_at.lock().await is granted (lines 71, 82, 87, 105)
SynLock(c) ==
    /\ call[c].pc \in {"lockCheck", "lockClear", "lockRefresh", "lockSet"}
    /\ atLock = 0
    /\ atLock' = c
    /\ call' = [call EXCEPT ![c].pc =
                  CASE call[c].pc = "lockCheck" -> "check"
                    [] call[c].pc = "lockClear" -> "clear"
                    [] call[c].pc = "lockRefresh" -> "refresh"
                    [] OTHER -> "set"]
    /\ UNCHANGED <<quota_exhausted, exhausted_at, now, resetPc>>
    /\ TtsOthersUnchanged

\* lines 70-75: should_retry under the lock, then the lock is released
SynCheck(c) ==
    /\ call[c].pc = "check" /\ atLock = c
    /\ atLock' = 0
    /\ LET sr == ShouldRetry(exhausted_at, now)
       IN call' = [call EXCEPT ![c].retry = sr,
                               ![c].pc = IF sr THEN "primaryRetry" ELSE "local"]
    /\ UNCHANGED <<quota_exhausted, exhausted_at, now, resetPc>>
    /\ TtsOthersUnchanged

\* line 100: the primary answers with the latch clear
SynPrimary(c, r) ==
    /\ call[c].pc = "primary"
    /\ LET o == OnPrimaryClear(r)
       IN /\ quota_exhausted' = Stored(o.store)
          /\ call' = [call EXCEPT ![c].primary = r, ![c].pc = o.pc,
                                  ![c].setFlag = o.store,
                                  ![c].result = o.result]
    /\ UNCHANGED <<exhausted_at, atLock, now, resetPc>>
    /\ TtsOthersUnchanged

\* line 79: the primary answers on a retry after the cooldown
SynPrimaryRetry(c, r) ==
    /\ call[c].pc = "primaryRetry"
    /\ LET o == OnPrimaryRetry(r)
       IN /\ quota_exhausted' = Stored(o.store)
          /\ call' = [call EXCEPT ![c].primary = r, ![c].pc = o.pc,
                                  ![c].setFlag = o.store,
                                  ![c].result = o.result]
    /\ UNCHANGED <<exhausted_at, atLock, now, resetPc>>
    /\ TtsOthersUnchanged

\* lines 87 and 105: *exhausted_at = Some(Instant::now()), lock released
SynStamp(c) ==
    /\ call[c].pc \in {"set", "refresh"} /\ atLock = c
    /\ exhausted_at' = now
    /\ atLock' = 0
    /\ call' = [call EXCEPT ![c].setAt = "now", ![c].pc = "local"]
    /\ UNCHANGED <<quota_exhausted, now, resetPc>>
    /\ TtsOthersUnchanged

\* line 82: *exhausted_at = None, lock released, return Ok(audio)
SynClear(c) ==
    /\ call[c].pc = "clear" /\ atLock = c
    /\ exhausted_at' = None
    /\ atLock' = 0
    /\ call' = [call EXCEPT ![c].setAt = "cleared", ![c].pc = "done",
                            ![c].result = "primaryOk"]
    /\ UNCHANGED <<quota_exhausted, now, resetPc>>
    /\ TtsOthersUnchanged

\* lines 88, 92, 97, 106, 110: self.local.synthesize(request).await
SynLocal(c, r) ==
    /\ call[c].pc = "local"
    /\ call' = [call EXCEPT ![c].pc = "done",
                            ![c].result = IF r = "Ok" THEN "localOk"
                                          ELSE "localErr"]
    /\ UNCHANGED <<quota_exhausted, exhausted_at, atLock, now, resetPc>>
    /\ TtsOthersUnchanged

\* the caller takes the result
SynReturn(c) ==
    /\ call[c].pc = "done"
    /\ call' = [call EXCEPT ![c].pc = "idle"]
    /\ UNCHANGED <<quota_exhausted, exhausted_at, atLock, now, resetPc>>
    /\ TtsOthersUnchanged

\* reset_quota_flag, line 49: quota_exhausted.store(false)
ResetStore ==
    /\ resetPc = "idle"
    /\ quota_exhausted' = FALSE
    /\ resetPc' = "tryLock"
    /\ UNCHANGED <<exhausted_at, atLock, now, call>>
    /\ TtsOthersUnchanged

\* Variant: reset_quota_flag only stores the flag and never clears exhausted_at.
ResetTryLockSkip ==
    /\ resetPc = "tryLock"
    /\ resetPc' = "idle"
    /\ UNCHANGED <<quota_exhausted, exhausted_at, atLock, now, call>>
    /\ TtsOthersUnchanged

\* reset_quota_flag, lines 50-52: try_lock, clear exhausted_at if granted
ResetTryLock ==
    /\ resetPc = "tryLock"
    /\ exhausted_at' = IF atLock = 0 THEN None ELSE exhausted_at
    /\ resetPc' = "idle"
    /\ UNCHANGED <<quota_exhausted, atLock, now, call>>
    /\ TtsOthersUnchanged

\* time passes
Tick ==
    /\ now + TickStep <= MaxNow
    /\ now' = now + TickStep
    /\ UNCHANGED <<quota_exhausted, exhausted_at, atLock, call, resetPc>>
    /\ TtsOthersUnchanged

NextFallback ==
    \/ \E c \in Callers :
          \/ SynStart(c) \/ SynLoad(c) \/ SynLock(c) \/ SynCheck(c)
          \/ (\E r \in PrimaryResults : SynPrimary(c, r))
          \/ (\E r \in PrimaryResults : SynPrimaryRetry(c, r))
          \/ SynStamp(c) \/ SynClear(c)
          \/ (\E r \in LocalResults : SynLocal(c, r))
          \/ SynReturn(c)
    \/ ResetStore \/ ResetTryLock \/ Tick

SpecFallback == InitFallback /\ [][NextFallback]_vars

\* caller c found the latch clear and its primary call returned r
ClearPathResult(c, r) == ~call[c].latched /\ call[c].primary = r
FromLocal(c) == call[c].result \in {"localOk", "localErr"}

\* C9: with the latch clear, a QuotaExhausted from the primary makes
\* synthesize store quota_exhausted = true, then set exhausted_at to the
\* current time, and return the secondary's result for the same request.
C9_QuotaSetsLatch ==
    /\ [](\A c \in Callers :
            (call[c].pc = "done" /\ ClearPathResult(c, "Quota")) =>
                /\ call[c].setFlag = "true" /\ call[c].setAt = "now"
                /\ FromLocal(c))
    /\ [][\A c \in Callers :
            /\ (call[c].primary = "none" /\ call'[c].primary = "Quota"
                    /\ ~call[c].latched)
                  => (quota_exhausted' = TRUE)
            /\ (call[c].setAt = "none" /\ call'[c].setAt = "now")
                  => (exhausted_at' = now)]_vars

\* C9 witness: a call that found the latch clear got QuotaExhausted and has
\* returned the secondary's audio; the latch is set and stamped.
C9_Witness ==
    \E c \in Callers :
        /\ call[c].pc = "done" /\ ClearPathResult(c, "Quota")
        /\ call[c].result = "localOk"
        /\ quota_exhausted /\ exhausted_at = now /\ now > 0

\* C10: with the latch clear, any other primary error makes synthesize
\* return the secondary's result without storing to quota_exhausted and
\* without writing exhausted_at: none of that call's steps changes them.
C10_OtherErrorDoesNotLatch ==
    /\ [](\A c \in Callers :
            (call[c].pc = "done" /\ ClearPathResult(c, "Other")) =>
                /\ call[c].setFlag = "none" /\ call[c].setAt = "none"
                /\ FromLocal(c))
    /\ [][\A c \in Callers :
            (call'[c] # call[c] /\ call'[c].pc # "idle"
                /\ ~call'[c].latched /\ call'[c].primary = "Other")
              => UNCHANGED <<quota_exhausted, exhausted_at>>]_vars

\* C10 witness: a call that found the latch clear got a non-quota error and
\* has returned the secondary's audio; the latch is still clear.
C10_Witness ==
    \E c \in Callers :
        /\ call[c].pc = "done" /\ ClearPathResult(c, "Other")
        /\ call[c].result = "localOk"
        /\ ~quota_exhausted /\ exhausted_at = None

\* caller c found the latch set; its should_retry was sr
LatchedPath(c, sr) == call[c].latched /\ call[c].retry = sr
\* caller c leaves the step at position p in this step
Leaves(c, p) == call[c].pc = p /\ call'[c].pc # p
\* seconds since exhausted_at (only meaningful when it is set)
Elapsed == now - exhausted_at

\* C11: while the latch is set and less than the cooldown has elapsed since
\* exhausted_at, a synthesize call goes to the secondary directly: it never
\* contacts the primary and none of its steps changes the latch state.
C11_WithinCooldownUsesSecondary ==
    /\ [](\A c \in Callers :
            (call[c].pc = "done" /\ LatchedPath(c, FALSE)) =>
                /\ call[c].primary = "none"
                /\ call[c].setFlag = "none" /\ call[c].setAt = "none"
                /\ FromLocal(c))
    /\ [][\A c \in Callers :
            /\ (Leaves(c, "check") /\ exhausted_at # None
                    /\ Elapsed < RETRY_PRIMARY_INTERVAL)
                  => (/\ call'[c].pc = "local" /\ ~call'[c].retry
                      /\ UNCHANGED <<quota_exhausted, exhausted_at>>)
            /\ (Leaves(c, "local") /\ call[c].latched)
                  => (/\ call'[c].pc = "done"
                      /\ UNCHANGED <<quota_exhausted, exhausted_at>>)]_vars

\* C11 witness: time has passed since the quota was exhausted, but less than
\* the cooldown; a call that found the latch set returned the secondary's
\* audio and the latch is as it was.
C11_Witness ==
    \E c \in Callers :
        /\ call[c].pc = "done" /\ LatchedPath(c, FALSE)
        /\ call[c].result = "localOk"
        /\ quota_exhausted /\ exhausted_at # None
        /\ Elapsed > 0 /\ Elapsed < RETRY_PRIMARY_INTERVAL

\* C12: when the latch is set and at least the cooldown has elapsed since
\* exhausted_at, the call retries the primary; if the primary succeeds the
\* call stores quota_exhausted = false, clears exhausted_at and returns the
\* primary's audio; a call that loads a clear latch goes to the primary first.
C12_RetryAfterCooldownRecovers ==
    /\ [](\A c \in Callers :
            (call[c].pc = "done" /\ LatchedPath(c, TRUE)
                /\ call[c].primary = "Ok") =>
                /\ call[c].result = "primaryOk"
                /\ call[c].setFlag = "false" /\ call[c].setAt = "cleared")
    /\ [][\A c \in Callers :
            /\ (Leaves(c, "check") /\ exhausted_at # None
                    /\ Elapsed >= RETRY_PRIMARY_INTERVAL)
                  => (call'[c].pc = "primaryRetry")
            /\ (Leaves(c, "primaryRetry") /\ call'[c].primary = "Ok")
                  => (quota_exhausted' = FALSE)
            /\ (call[c].setAt = "none" /\ call'[c].setAt = "cleared")
                  => (exhausted_at' = None)
            /\ (Leaves(c, "load") /\ ~quota_exhausted)
                  => (call'[c].pc = "primary")]_vars

\* C12 witness: the cooldown elapsed, the retry succeeded, the latch is clear
\* again and another request is already at the primary.
C12_Witness ==
    \E c, d \in Callers :
        /\ c # d
        /\ call[c].pc = "done" /\ LatchedPath(c, TRUE)
        /\ call[c].primary = "Ok" /\ call[c].result = "primaryOk"
        /\ ~quota_exhausted /\ exhausted_at = None
        /\ call[d].pc = "primary"

\* C13: when the latch is set, the cooldown has elapsed and the retry of the
\* primary fails, the call returns the secondary's result and does not store
\* to quota_exhausted; on QuotaExhausted it sets exhausted_at to the current
\* time, on any other error it does not write exhausted_at.
C13_FailedRetryKeepsLatch ==
    /\ [](\A c \in Callers :
            (call[c].pc = "done" /\ LatchedPath(c, TRUE)) =>
                /\ call[c].primary = "Quota" =>
                      /\ call[c].setFlag = "none" /\ call[c].setAt = "now"
                      /\ FromLocal(c)
                /\ call[c].primary = "Other" =>
                      /\ call[c].setFlag = "none" /\ call[c].setAt = "none"
                      /\ FromLocal(c))
    /\ [][\A c \in Callers :
            /\ (Leaves(c, "primaryRetry") /\ call'[c].primary # "Ok")
                  => UNCHANGED <<quota_exhausted, exhausted_at>>
            /\ (Leaves(c, "refresh"))
                  => (exhausted_at' = now /\ UNCHANGED quota_exhausted)
            /\ (call'[c] # call[c] /\ call'[c].pc # "idle" /\ call'[c].latched
                    /\ call'[c].primary = "Other")
                  => UNCHANGED <<quota_exhausted, exhausted_at>>]_vars

\* C13 witness: a retry after the cooldown got QuotaExhausted again; the
\* latch is still set, the cooldown restarted at the current time and the
\* secondary's audio was returned.
C13_Witness ==
    \E c \in Callers :
        /\ call[c].pc = "done" /\ LatchedPath(c, TRUE)
        /\ call[c].primary = "Quota" /\ call[c].result = "localOk"
        /\ quota_exhausted /\ exhausted_at = now
        /\ now >= RETRY_PRIMARY_INTERVAL

\* reset_quota_flag completes in this step
ResetCompletes == resetPc = "tryLock" /\ resetPc' = "idle"

\* C14 as stated: whenever reset_quota_flag has run on a latched client,
\* quota_exhausted is false and exhausted_at is cleared.
C14_Original ==
    [][ResetCompletes => (quota_exhausted' = FALSE /\ exhausted_at' = None)]_vars

\* C14: reset_quota_flag stores quota_exhausted = false; it clears
\* exhausted_at only if it gets the timestamp's mutex without waiting, and
\* leaves exhausted_at as it is when a synthesize call holds the mutex; a
\* synthesize call that then loads the clear flag contacts the primary first,
\* whatever exhausted_at holds and however recently the quota was exhausted.
C14_ResetClearsFlagAndTriesTimestamp ==
    [][/\ (resetPc = "idle" /\ resetPc' = "tryLock")
            => (quota_exhausted' = FALSE /\ UNCHANGED exhausted_at)
       /\ (ResetCompletes /\ atLock = 0)
            => (exhausted_at' = None /\ UNCHANGED quota_exhausted)
       /\ (ResetCompletes /\ atLock # 0)
            => UNCHANGED <<quota_exhausted, exhausted_at>>
       /\ \A c \in Callers :
            (Leaves(c, "load") /\ ~quota_exhausted)
                => (call'[c].pc = "primary" /\ ~call'[c].latched)]_vars

\* C14 witness: a call latched the client less than the cooldown ago, the
\* reset has cleared both the flag and the timestamp (no retry can have done
\* it this early), and the next call is at the primary.
C14_Witness ==
    \E c, d \in Callers :
        /\ c # d
        /\ call[c].pc = "done" /\ call[c].setFlag = "true"
        /\ call[c].setAt = "now"
        /\ resetPc = "idle"
        /\ ~quota_exhausted /\ exhausted_at = None
        /\ now < RETRY_PRIMARY_INTERVAL
        /\ call[d].pc = "primary" /\ ~call[d].latched

\* C15: in every state where no synthesize call and no reset is in flight,
\* quota_exhausted is true only if exhausted_at is set.
C15_LatchedHasTimestamp ==
    ((\A c \in Callers : call[c].pc = "idle") /\ resetPc = "idle"
        /\ quota_exhausted)
      => exhausted_at # None

\* ================================================================
\* retry_with_backoff and RetryConfig (util/retry.rs).  Delays are whole
\* milliseconds.  backoff_multiplier is an f64 in the code; here it is a
\* fraction num/den with den a power of two, so that every power and
\* every product below is exact in f64 as well and `as u64` is the floor.
\* ================================================================
MaxAttempts == 5

Multipliers ==
    {[num |-> 1, den |-> 2], [num |-> 1, den |-> 1], [num |-> 3, den |-> 2],
     [num |-> 2, den |-> 1], [num |-> 10, den |-> 1]}
InitialDelays == {100, 500}
MaxDelays == {1000, 10000}

\* every RetryConfig value of the sample: the fields are public
RetryConfigs ==
    [max_attempts : 0..MaxAttempts, initial_delay : InitialDelays,
     backoff_multiplier : Multipliers, max_delay : MaxDelays]

\* impl Default for RetryConfig
DefaultConfig ==
    [max_attempts |-> 3, initial_delay |-> 500,
     backoff_multiplier |-> [num |-> 2, den |-> 1], max_delay |-> 10000]

RECURSIVE Pow(_, _)
\* f64::powi for a non-negative exponent
Pow(b, k) == IF k = 0 THEN 1 ELSE b * Pow(b, k - 1)

\* Variant: the delay is not capped at max_delay.
DelayForAttemptNoCap(cfg, attempt) ==
    (cfg.initial_delay * Pow(cfg.backoff_multiplier.num, attempt - 1))
        \div Pow(cfg.backoff_multiplier.den, attempt - 1)

\* RetryConfig::delay_for_attempt: initial_ms * multiplier^(attempt-1),
\* truncated to whole milliseconds by `as u64`, then min with max_delay
DelayForAttempt(cfg, attempt) ==
    Min((cfg.initial_delay * Pow(cfg.backoff_multiplier.num, attempt - 1))
            \div Pow(cfg.backoff_multiplier.den, attempt - 1),
        cfg.max_delay)

\* Variant: every error is retried while attempts remain.
ShouldSleepIgnoreClassifier(cfg, attempt, retryable) ==
    attempt < cfg.max_attempts

\* line 76: attempt < config.max_attempts && is_retryable(&e)
ShouldSleep(cfg, attempt, retryable) ==
    attempt < cfg.max_attempts /\ retryable

\* Result values of f and of retry_with_backoff
Ok == [kind |-> "Ok", err |-> NoError]
Err(e) == [kind |-> "Err", err |-> e]
\* last_error.unwrap() on None
Panic == [kind |-> "panic", err |-> NoError]

RetryOthersUnchanged ==
    UNCHANGED <<extractVars, stateVars, bufVars, runVars, jitterVars, ttsVars,
                statusVars, moreVars>>

\* the state at the call of retry_with_backoff(&cfg, f, is_retryable)
RetryEntered(cfg) ==
    /\ rCfg = cfg /\ rPc = "loop" /\ rAttempt = 1 /\ rHist = <<>>
    /\ rSleeps = <<>> /\ rLastError = NoError /\ rResult = NoOutcome
    /\ rAudio = "none"

\* line 65: head of `for attempt in 1..=config.max_attempts`
RetryLoop ==
    /\ rPc = "loop"
    /\ rPc' = IF rAttempt <= rCfg.max_attempts THEN "call" ELSE "exit"
    /\ UNCHANGED <<rCfg, rAttempt, rHist, rSleeps, rLastError, rResult, rAudio>>
    /\ RetryOthersUnchanged

\* lines 66-87: f().await is answered resp and yields r, then the match on
\* r; retryable is the value of is_retryable for r's error
RetryCall(resp, r, retryable) ==
    /\ rPc = "call"
    /\ rHist' = Append(rHist, [resp |-> resp, out |-> r])
    /\ IF r.kind = "Ok"
       THEN /\ rResult' = r
            /\ rPc' = "done"
            /\ UNCHANGED <<rLastError, rSleeps>>
       ELSE /\ rLastError' = r.err
            /\ IF ShouldSleep(rCfg, rAttempt, retryable)
               THEN /\ rSleeps' =
                         Append(rSleeps, DelayForAttempt(rCfg, rAttempt))
                    /\ rPc' = "sleep"
               ELSE /\ rPc' = "exit"
                    /\ UNCHANGED rSleeps
            /\ UNCHANGED rResult
    /\ UNCHANGED <<rCfg, rAttempt, rAudio>>
    /\ RetryOthersUnchanged

\* line 82: sleep(delay).await is over, next iteration
RetryWake ==
    /\ rPc = "sleep"
    /\ rAttempt' = rAttempt + 1
    /\ rPc' = "loop"
    /\ UNCHANGED <<rCfg, rHist, rSleeps, rLastError, rResult, rAudio>>
    /\ RetryOthersUnchanged

\* line 90: Err(last_error.unwrap())
RetryExit ==
    /\ rPc = "exit"
    /\ rResult' = IF rLastError = NoError THEN Panic ELSE Err(rLastError)
    /\ rPc' = "done"
    /\ UNCHANGED <<rCfg, rAttempt, rHist, rSleeps, rLastError, rAudio>>
    /\ RetryOthersUnchanged

\* ---- what the server (or the operation) answers to one invocation of f
HttpStatuses == {200, 301, 400, 401, 404, 408, 429, 500, 599}
NetworkError ==
    [kind |-> "neterr", status |-> 0, body |-> "none", quota |-> FALSE]
\* StatusCode::is_success
IsSuccess(status) == status >= 200 /\ status <= 299

\* ---- an arbitrary operation with an arbitrary classifier
GenericResponses ==
    {[kind |-> "op", status |-> 0, body |-> b, quota |-> FALSE] :
        b \in {"Ok", "Retryable", "Terminal"}}
GenericOp(resp) == IF resp.body = "Ok" THEN Ok ELSE Err(resp.body)
GenericIsRetryable(e) == e = "Retryable"

InitRetry ==
    /\ \E cfg \in RetryConfigs : RetryEntered(cfg)
    /\ ExtractIdle /\ StateIdle /\ BufIdle /\ RunIdle /\ JitterIdle /\ TtsIdle
    /\ StatusIdle /\ MoreIdle

NextRetry ==
    \/ RetryLoop
    \/ \E resp \in GenericResponses :
            RetryCall(resp, GenericOp(resp),
                      GenericIsRetryable(GenericOp(resp).err))
    \/ RetryWake
    \/ RetryExit

SpecRetry == InitRetry /\ [][NextRetry]_vars

\* number of invocations of f so far
Invocations == Len(rHist)
\* the i-th invocation of f answered a retryable error / succeeded
RetryableAt(i) == rHist[i].resp.body = "Retryable"
\* retry_with_backoff has returned
Returned == rPc = "done"

\* C16: for max_attempts >= 1, f is invoked only after retryable errors and
\* at most max_attempts times; when retry_with_backoff returns, the number of
\* invocations k is the first attempt that succeeded or failed with a
\* non-retryable error, or max_attempts if there is none, and the value
\* returned is the k-th result.
C16_StopsAtFirstFinalResult ==
    rCfg.max_attempts >= 1 =>
        /\ Invocations <= rCfg.max_attempts
        /\ \A i \in 1..(Invocations - 1) : RetryableAt(i)
        /\ rPc \in {"loop", "call", "sleep"} =>
              \A i \in 1..Invocations : RetryableAt(i)
        /\ Returned =>
              /\ Invocations >= 1
              /\ RetryableAt(Invocations) => Invocations = rCfg.max_attempts
              /\ rResult = GenericOp(rHist[Invocations].resp)
              /\ rResult.kind # "panic"

\* C16 witness: two retryable errors, then a non-retryable one ends the run
\* before max_attempts is reached and is the error returned.
C16_Witness ==
    /\ Returned /\ Invocations = 3 /\ rCfg.max_attempts > 3
    /\ RetryableAt(1) /\ RetryableAt(2)
    /\ rHist[3].resp.body = "Terminal"
    /\ rResult = Err("Terminal")

\* the multiplier of the run's configuration, as numerator and denominator
MulNum == rCfg.backoff_multiplier.num
MulDen == rCfg.backoff_multiplier.den
\* the sleeps never shrink / never grow from one attempt to the next
SleepsNondecreasing ==
    \A i \in 2..Len(rSleeps) : rSleeps[i - 1] <= rSleeps[i]
SleepsNonincreasing ==
    \A i \in 2..Len(rSleeps) : rSleeps[i - 1] >= rSleeps[i]
\* no sleep follows the final attempt
NoSleepAfterFinalAttempt ==
    /\ Len(rSleeps) <= Max(rCfg.max_attempts - 1, 0)
    /\ rPc = "sleep" =>
          Len(rSleeps) = Invocations /\ Invocations < rCfg.max_attempts
    /\ (Returned /\ Invocations >= 1) => Len(rSleeps) = Invocations - 1

\* C17 as stated: for every run the sleeps are nondecreasing, never exceed
\* max_delay, the i-th is exactly min(initial_delay * multiplier^(i-1),
\* max_delay), and no sleep follows the final attempt.
C17_Original ==
    /\ SleepsNondecreasing
    /\ \A i \in 1..Len(rSleeps) :
          /\ rSleeps[i] <= rCfg.max_delay
          /\ rSleeps[i] * Pow(MulDen, i - 1) =
                Min(rCfg.initial_delay * Pow(MulNum, i - 1),
                    rCfg.max_delay * Pow(MulDen, i - 1))
    /\ NoSleepAfterFinalAttempt

\* C17: for every run, the sleep after failed attempt i is
\* min(initial_delay_ms * multiplier^(i-1) truncated to whole milliseconds,
\* max_delay) and so never exceeds max_delay; the sleeps are nondecreasing
\* when the multiplier is at least 1 and nonincreasing when it is at most 1;
\* no sleep follows the final attempt.
C17_SleepSchedule ==
    /\ \A i \in 1..Len(rSleeps) :
          /\ rSleeps[i] <= rCfg.max_delay
          /\ rSleeps[i] =
                Min((rCfg.initial_delay * Pow(MulNum, i - 1))
                        \div Pow(MulDen, i - 1),
                    rCfg.max_delay)
    /\ MulNum >= MulDen => SleepsNondecreasing
    /\ MulNum <= MulDen => SleepsNonincreasing
    /\ NoSleepAfterFinalAttempt

\* C17 witness: initial delay 100 ms, multiplier 2, five attempts that all
\* failed with a retryable error: the run slept 100, 200, 400 and 800 ms.
C17_Witness ==
    /\ Returned /\ Invocations = 5
    /\ rCfg.initial_delay = 100 /\ MulNum = 2 /\ MulDen = 1
    /\ rSleeps = <<100, 200, 400, 800>>

\* ================================================================
\* is_http_retryable (util/retry.rs), applied to every u16.
\* ================================================================
U16Max == 65535

\* Variant: the server-error range stops one short of 599.
IsHttpRetryableExclusive(status) ==
    status = 408 \/ status = 429 \/ (status >= 500 /\ status < 599)

\* matches!(status, 408 | 429 | 500..=599)
IsHttpRetryable(status) ==
    status = 408 \/ status = 429 \/ (status >= 500 /\ status <= 599)

InitStatus ==
    /\ hStatus \in 0..U16Max
    /\ hRetryable = "pending"
    /\ ExtractIdle /\ StateIdle /\ BufIdle /\ RunIdle /\ JitterIdle /\ TtsIdle
    /\ RetryIdle /\ MoreIdle

StatusClassify ==
    /\ hRetryable = "pending"
    /\ hRetryable' = IF IsHttpRetryable(hStatus) THEN "true" ELSE "false"
    /\ UNCHANGED <<hStatus, extractVars, stateVars, bufVars, runVars,
                   jitterVars, ttsVars, retryVars, moreVars>>

NextStatus == StatusClassify

SpecStatus == InitStatus /\ [][NextStatus]_vars

\* C18: for every u16 status, is_http_retryable returns true if and only if
\* the status is 408, 429 or lies in 500..=599.
C18_RetryableStatuses ==
    hRetryable # "pending" =>
        (hRetryable = "true" <=> hStatus \in ({408, 429} \cup (500..599)))

\* C18 witness: the last status of the range, 599, was classified retryable.
C18_Witness == hStatus = 599 /\ hRetryable = "true"

\* ================================================================
\* DeepLTranslator::translate (translate/deepl.rs): one translation
\* request sent through retry_with_backoff with RetryConfig::default().
\* ================================================================
DeepLBodies == {"translations", "notranslations", "invalid"}
DeepLResponses ==
    {NetworkError} \cup
    {[kind |-> "http", status |-> st, body |-> b, quota |-> FALSE] :
        st \in HttpStatuses, b \in DeepLBodies}

\* the closure passed as f, lines 78-126
DeepLOp(resp) ==
    IF resp.kind = "neterr" THEN Err("Network")
    ELSE IF ~IsSuccess(resp.status)
         THEN IF IsHttpRetryable(resp.status) THEN Err("Api") ELSE Err("Api")
    ELSE IF resp.body = "invalid" THEN Err("InvalidResponse")
    ELSE IF resp.body = "notranslations" THEN Err("InvalidResponse")
    ELSE Ok

\* the closure passed as is_retryable, lines 127-130
DeepLIsRetryable(e) == e = "Api"

InitDeepL ==
    /\ RetryEntered(DefaultConfig)
    /\ ExtractIdle /\ StateIdle /\ BufIdle /\ RunIdle /\ JitterIdle /\ TtsIdle
    /\ StatusIdle /\ MoreIdle

NextDeepL ==
    \/ RetryLoop
    \/ \E resp \in DeepLResponses :
            RetryCall(resp, DeepLOp(resp), DeepLIsRetryable(DeepLOp(resp).err))
    \/ RetryWake
    \/ RetryExit

SpecDeepL == InitDeepL /\ [][NextDeepL]_vars

\* a transient failure: transport error, HTTP 408, 429 or 5xx
Transient(resp) ==
    \/ resp.kind = "neterr"
    \/ resp.kind = "http" /\ resp.status \in ({408, 429} \cup (500..599))
\* a terminal HTTP error: any 4xx other than 408 and 429
Terminal4xx(resp) ==
    /\ resp.kind = "http"
    /\ resp.status \in ((400..499) \ {408, 429})

\* C19: translate retries a failed request if and only if the failure is
\* transient: after a terminal HTTP error no further request is made and the
\* error is returned, and a transient failure is followed by another request
\* as long as fewer than max_attempts requests have been made.
C19_RetriesExactlyTransient ==
    Returned =>
        \A i \in 1..Invocations :
            /\ Terminal4xx(rHist[i].resp) =>
                  (i = Invocations /\ rResult = rHist[i].out)
            /\ (Transient(rHist[i].resp) /\ i < rCfg.max_attempts) =>
                  i < Invocations

\* ================================================================
\* ElevenLabsTtsClient::synthesize (tts/elevenlabs.rs): one synthesis
\* request sent through retry_with_backoff with RetryConfig::default(),
\* then the decoding of the bytes received.
\* ================================================================
ElevenBodies == {"data", "empty", "unreadable"}
\* quota: the body text contains "quota" in some letter case
ElevenResponses ==
    {NetworkError} \cup
    {r \in [kind : {"http"}, status : HttpStatuses, body : ElevenBodies,
            quota : BOOLEAN] : r.quota => r.body = "data"}

\* line 225: response.text().await.unwrap_or_else(|_| "Unknown error"),
\* then error_text.to_lowercase().contains("quota")
ErrorTextHasQuota(resp) == resp.body # "unreadable" /\ resp.quota

\* the closure passed as f, lines 205-257
ElevenOp(resp) ==
    IF resp.kind = "neterr" THEN Err("Other")
    ELSE IF ~IsSuccess(resp.status)
         THEN IF resp.status = 401 \/ ErrorTextHasQuota(resp)
              THEN Err("QuotaExhausted")
              ELSE IF IsHttpRetryable(resp.status) THEN Err("Other")
              ELSE Err("Other")
    ELSE IF resp.body = "unreadable" THEN Err("Other")
    ELSE IF resp.body = "empty" THEN Err("Other")
    ELSE Ok

\* Variant: every error is retried.
ElevenIsRetryableAll(e) == e \in {"Other", "QuotaExhausted"}

\* the closure passed as is_retryable, lines 258-261
ElevenIsRetryable(e) == e = "Other"

\* lines 261-275: `?` on the result, then decode_mp3_to_pcm or dummy audio
ElevenDecode(decodes) ==
    /\ rPc = "done"
    /\ rPc' = "returned"
    /\ rAudio' = IF rResult.kind # "Ok" THEN "none"
                 ELSE IF decodes THEN "decoded" ELSE "dummy"
    /\ UNCHANGED <<rCfg, rAttempt, rHist, rSleeps, rLastError, rResult>>
    /\ RetryOthersUnchanged

InitEleven ==
    /\ RetryEntered(DefaultConfig)
    /\ ExtractIdle /\ StateIdle /\ BufIdle /\ RunIdle /\ JitterIdle /\ TtsIdle
    /\ StatusIdle /\ MoreIdle

NextEleven ==
    \/ RetryLoop
    \/ \E resp \in ElevenResponses :
            RetryCall(resp, ElevenOp(resp),
                      ElevenIsRetryable(ElevenOp(resp).err))
    \/ RetryWake
    \/ RetryExit
    \/ \E decodes \in BOOLEAN : ElevenDecode(decodes)

SpecEleven == InitEleven /\ [][NextEleven]_vars

\* the request was answered with HTTP 401 or with a body containing "quota"
QuotaAnswer(resp) ==
    resp.kind = "http" /\ (resp.status = 401 \/ resp.quota)
\* the i-th request is the last one, and once synthesize is past the retry
\* loop its error is QuotaExhausted
LastAndQuotaExhausted(i) ==
    /\ rHist[i].out = Err("QuotaExhausted")
    /\ i = Invocations
    /\ rPc \in {"exit", "done", "returned"}
    /\ rPc \in {"done", "returned"} => rResult = Err("QuotaExhausted")
    /\ rPc = "returned" => rAudio = "none"

\* C20 as stated: every request answered with HTTP 401 or with a body
\* containing "quota" fails with QuotaExhausted and is the last request.
C20_Original ==
    \A i \in 1..Invocations :
        QuotaAnswer(rHist[i].resp) => LastAndQuotaExhausted(i)

\* C20: a request answered with a non-success status (outside 200..=299)
\* that is 401 or whose body text contains "quota" fails with
\* QuotaExhausted, no further request is made and synthesize returns
\* QuotaExhausted; the body of a 2xx answer is not searched for "quota", and
\* no other answer yields QuotaExhausted.
C20_QuotaAnswerIsFinal ==
    \A i \in 1..Invocations :
        LET resp == rHist[i].resp IN
        /\ (QuotaAnswer(resp) /\ ~IsSuccess(resp.status)) =>
              LastAndQuotaExhausted(i)
        /\ (resp.kind = "http" /\ IsSuccess(resp.status)) =>
              rHist[i].out.err # "QuotaExhausted"
        /\ ~QuotaAnswer(resp) => rHist[i].out.err # "QuotaExhausted"

\* C20 witness: a first request failed with HTTP 500 and was retried, the
\* second was answered 429 with a quota message: synthesize returned
\* QuotaExhausted after two requests.
C20_Witness ==
    /\ rPc = "returned" /\ Invocations = 2
    /\ rHist[1].resp.status = 500 /\ rHist[1].out = Err("Other")
    /\ rHist[2].resp.status = 429 /\ rHist[2].resp.quota
    /\ rResult = Err("QuotaExhausted")

\* ================================================================
\* Pipeline::channel_capacity (pipeline/mod.rs), for every target_ms of
\* 1..MaxTargetMs: past 32 * 250 ms the capacity is constant.
\* ================================================================
MaxTargetMs == 8300

\* Ord::clamp
Clamp(x, lo, hi) == IF x < lo THEN lo ELSE IF x > hi THEN hi ELSE x

\* Variant: no lower clamp.
ChannelCapacityNoFloor(target_ms) == Min(target_ms \div 250, 32)

\* (target_ms / 250).clamp(2, 32); the value always fits usize, so the
\* unwrap_or(8) of line 224 is never taken
ChannelCapacity(target_ms) == Clamp(target_ms \div 250, 2, 32)

\* the five channels of Pipeline::run, lines 63-72
Channels == 1..5
\* lines 63-72: each channel is created with self.channel_capacity()
CreatedCapacities(target_ms) == [ch \in Channels |-> ChannelCapacity(target_ms)]

PipeOthersUnchanged ==
    UNCHANGED <<extractVars, stateVars, bufVars, runVars, jitterVars, ttsVars,
                retryVars, statusVars, audioVars, callVars, pollVars>>

InitCapacity ==
    /\ pTarget \in 1..MaxTargetMs
    /\ pCaps = <<>> /\ pDeepl = FALSE /\ pChan = <<>>
    /\ pPc = <<>> /\ pItem = <<>> /\ pNext = 0 /\ pDropped = {}
    /\ pPlayed = <<>> /\ pRun = "idle" /\ pSounding = {}
    /\ ExtractIdle /\ StateIdle /\ BufIdle /\ RunIdle /\ JitterIdle /\ TtsIdle
    /\ RetryIdle /\ StatusIdle /\ AudioIdle /\ CallIdle /\ PollIdle

CreateChannels ==
    /\ pCaps = <<>>
    /\ pCaps' = CreatedCapacities(pTarget)
    /\ UNCHANGED pSounding
    /\ UNCHANGED <<pTarget, pDeepl, pChan, pPc, pItem, pNext, pDropped,
                   pPlayed, pRun>>
    /\ PipeOthersUnchanged

NextCapacity == CreateChannels

SpecCapacity == InitCapacity /\ [][NextCapacity]_vars

\* C21: for every positive target_ms every one of the five channels gets
\* the capacity clamp(target_ms / 250, 2, 32) with integer division, which
\* lies in [2, 32] and is not smaller than the capacity for target_ms - 1.
C21_ChannelCapacity ==
    pCaps # <<>> =>
        /\ \A ch \in Channels :
              /\ pCaps[ch] >= 2 /\ pCaps[ch] <= 32
              /\ pTarget < 500 => pCaps[ch] = 2
              /\ pTarget >= 8000 => pCaps[ch] = 32
              /\ (pTarget >= 500 /\ pTarget < 8000) =>
                    /\ pCaps[ch] * 250 <= pTarget
                    /\ pTarget < (pCaps[ch] + 1) * 250
              /\ pCaps[ch] = pCaps[1]
        /\ pTarget > 1 => ChannelCapacity(pTarget - 1) <= pCaps[1]

\* C21 witness: the default budget of 1500 ms gives five channels of 6.
C21_Witness == pTarget = 1500 /\ pCaps = <<6, 6, 6, 6, 6>>

\* ================================================================
\* Pipeline::run (pipeline/mod.rs): six tasks joined by five bounded
\* mpsc channels.  Task 0 is the ingestor (TwitchHlsIngestor::start
\* forwarding into ingest_tx), 1 decode, 2 ASR, 3 translate, 4 TTS,
\* 5 playback; channel ch runs from task ch - 1 to task ch.  An item is
\* identified by the position 1, 2, ... in which the ingestor emitted it.
\* ================================================================
MaxItems == 4

Stages == 0..5
\* latency budgets that give channels of 2 and of 3 slots
PipeTargets == {250, 750}

\* the task has returned (Ok, Err(ChannelClosed)) or panicked
Terminated(st) == pPc[st] \in {"ok", "err", "panicked"}
\* Variant: a stage never learns that its input channel was closed.
SenderGoneNever(ch) == FALSE
\* every Sender of channel ch has been dropped
SenderGone(ch) == Terminated(ch - 1)
\* the Receiver of channel ch has been dropped
ReceiverGone(ch) == Terminated(ch)

\* Variant: the channel hands out the newest item first.
DequeueNewest(q) == [item |-> Last(q), rest |-> SubSeq(q, 1, Len(q) - 1)]
\* Receiver::recv on a non-empty channel: the oldest item
Dequeue(q) == [item |-> Head(q), rest |-> Tail(q)]

\* Variant: send never waits for a free slot.
CanSendAlways(q, capacity) == TRUE
\* Sender::send completes only when the channel has a free slot
CanSend(q, capacity) == Len(q) < capacity

\* Variant: a per-item error ends the stage.
AfterItemErrorFatal(st) == "err"
\* the Err(e) arms of lines 97, 118, 146, 183, 199: log, next iteration
AfterItemError(st) == "recv"

\* Variant: a failed send is ignored and the stage goes on.
AfterSendClosedContinue(st) == "recv"
\* a failed send: the stage tasks return Err(ChannelClosed) (lines 92-95,
\* 113-116, 141-144, 156-159, 178-181); the ingestor breaks out of its
\* loop and returns Ok(()) (ingest/mod.rs lines 202-206)
AfterSendClosed(st) == IF st = 0 THEN "ok" ELSE "err"

\* Variant: play returns right after sink.append.
SleepUntilEndAtOnce(clip, sounding) == TRUE
\* playback/audio.rs line 246: sink.sleep_until_end() returns when the
\* sink's only source has been played to its end
SleepUntilEndReturns(clip, sounding) == clip \notin sounding

\* the per-item operation of stage st can return Err: decode, ASR and TTS
\* always can, translate only calls the translator when has_deepl_key
CanFail(st) == st \in {1, 2, 4} \/ (st = 3 /\ pDeepl)

InitPipe ==
    /\ pTarget \in PipeTargets
    /\ pCaps = CreatedCapacities(pTarget)
    /\ pDeepl \in BOOLEAN
    /\ pChan = [ch \in Channels |-> <<>>]
    /\ pPc = [st \in Stages |-> "recv"]
    /\ pItem = [st \in Stages |-> 0]
    /\ pNext = 1
    /\ pDropped = {}
    /\ pPlayed = <<>>
    /\ pRun = "running"
    /\ pSounding = {}
    /\ ExtractIdle /\ StateIdle /\ BufIdle /\ RunIdle /\ JitterIdle /\ TtsIdle
    /\ RetryIdle /\ StatusIdle /\ AudioIdle /\ CallIdle /\ PollIdle

\* ingest/mod.rs lines 196-201: rx.recv() yields the next item
IngestEmit ==
    /\ pPc[0] = "recv"
    /\ pNext <= MaxItems
    /\ pItem' = [pItem EXCEPT ![0] = pNext]
    /\ pNext' = pNext + 1
    /\ pPc' = [pPc EXCEPT ![0] = "send"]
    /\ UNCHANGED pSounding
    /\ UNCHANGED <<pTarget, pCaps, pDeepl, pChan, pDropped, pPlayed, pRun>>
    /\ PipeOthersUnchanged

\* lines 78-81: ingest.start returns, Ok(()) or an error that is mapped
\* to ChannelClosed; ingest_tx is dropped with it
IngestEnd(ok) ==
    /\ pPc[0] = "recv"
    /\ pPc' = [pPc EXCEPT ![0] = IF ok THEN "ok" ELSE "err"]
    /\ UNCHANGED pSounding
    /\ UNCHANGED <<pTarget, pCaps, pDeepl, pChan, pItem, pNext, pDropped,
                   pPlayed, pRun>>
    /\ PipeOthersUnchanged

\* tx.send(..).await with the receiver alive: waits for a free slot
Send(st) ==
    /\ pPc[st] = "send"
    /\ ~ReceiverGone(st + 1)
    /\ CanSend(pChan[st + 1], pCaps[st + 1])
    /\ pChan' = [pChan EXCEPT ![st + 1] = Append(@, pItem[st])]
    /\ pItem' = [pItem EXCEPT ![st] = 0]
    /\ pPc' = [pPc EXCEPT ![st] = "recv"]
    /\ UNCHANGED pSounding
    /\ UNCHANGED <<pTarget, pCaps, pDeepl, pNext, pDropped, pPlayed, pRun>>
    /\ PipeOthersUnchanged

\* tx.send(..).await.is_err(): the receiver is gone; the task returns and
\* drops its own receiver together with what is still queued there
SendClosed(st) ==
    /\ pPc[st] = "send"
    /\ ReceiverGone(st + 1)
    /\ pPc' = [pPc EXCEPT ![st] = AfterSendClosed(st)]
    /\ pItem' = [pItem EXCEPT ![st] = 0]
    /\ pChan' = IF st \in Channels /\ Terminated(st)'
                THEN [pChan EXCEPT ![st] = <<>>] ELSE pChan
    /\ UNCHANGED pSounding
    /\ UNCHANGED <<pTarget, pCaps, pDeepl, pNext, pDropped, pPlayed, pRun>>
    /\ PipeOthersUnchanged

\* `while let Some(x) = rx.recv().await`: an item is queued
Recv(st) ==
    /\ pPc[st] = "recv"
    /\ pChan[st] # <<>>
    /\ pItem' = [pItem EXCEPT ![st] = Dequeue(pChan[st]).item]
    /\ pChan' = [pChan EXCEPT ![st] = Dequeue(pChan[st]).rest]
    /\ pPc' = [pPc EXCEPT ![st] = "work"]
    /\ UNCHANGED pSounding
    /\ UNCHANGED <<pTarget, pCaps, pDeepl, pNext, pDropped, pPlayed, pRun>>
    /\ PipeOthersUnchanged

\* rx.recv() yields None: the channel is empty and its sender is gone;
\* the loop ends and the task returns Ok(())
RecvClosed(st) ==
    /\ pPc[st] = "recv"
    /\ pChan[st] = <<>>
    /\ SenderGone(st)
    /\ pPc' = [pPc EXCEPT ![st] = "ok"]
    /\ UNCHANGED pSounding
    /\ UNCHANGED <<pTarget, pCaps, pDeepl, pChan, pItem, pNext, pDropped,
                   pPlayed, pRun>>
    /\ PipeOthersUnchanged

\* the per-item operation of decode, ASR, translate or TTS returns
Work(st, ok) ==
    /\ pPc[st] = "work"
    /\ ok \/ CanFail(st)
    /\ IF ok
       THEN /\ pPc' = [pPc EXCEPT ![st] = "send"]
            /\ UNCHANGED <<pItem, pDropped>>
       ELSE /\ pPc' = [pPc EXCEPT ![st] = AfterItemError(st)]
            /\ pDropped' = pDropped \cup {pItem[st]}
            /\ pItem' = [pItem EXCEPT ![st] = 0]
    /\ UNCHANGED pSounding
    /\ UNCHANGED <<pTarget, pCaps, pDeepl, pChan, pNext, pPlayed, pRun>>
    /\ PipeOthersUnchanged

\* playback/audio.rs lines 243-245: play has accepted the clip (valid, sink
\* connected) and appends it to the sink, where it starts to sound
PlayAccept ==
    /\ pPc[5] = "work"
    /\ pPc' = [pPc EXCEPT ![5] = "playing"]
    /\ pSounding' = pSounding \cup {pItem[5]}
    /\ UNCHANGED <<pTarget, pCaps, pDeepl, pChan, pItem, pNext, pDropped,
                   pPlayed, pRun>>
    /\ PipeOthersUnchanged

\* the output device has rendered the last sample of a clip
SoundEnd ==
    /\ \E x \in pSounding : pSounding' = pSounding \ {x}
    /\ UNCHANGED <<pTarget, pCaps, pDeepl, pChan, pPc, pItem, pNext, pDropped,
                   pPlayed, pRun>>
    /\ PipeOthersUnchanged

\* lines 196-203: playback.play(audio).await returns: Ok for an accepted
\* clip once sleep_until_end has returned; Ok at once for a clip play
\* skips (sink disabled, blank audio); Err when no sink could be connected
Play(ok) ==
    /\ \/ pPc[5] = "work"
       \/ pPc[5] = "playing" /\ ok /\ SleepUntilEndReturns(pItem[5], pSounding)
    /\ pPlayed' = Append(pPlayed, pItem[5])
    /\ pDropped' = IF ok THEN pDropped ELSE pDropped \cup {pItem[5]}
    /\ pItem' = [pItem EXCEPT ![5] = 0]
    /\ pPc' = [pPc EXCEPT ![5] = IF ok THEN "recv" ELSE AfterItemError(5)]
    /\ UNCHANGED pSounding
    /\ UNCHANGED <<pTarget, pCaps, pDeepl, pChan, pNext, pRun>>
    /\ PipeOthersUnchanged

\* the per-item operation panics: the task ends with a JoinError and its
\* receiver and sender are dropped
StagePanic(st) ==
    /\ pPc[st] = "work"
    /\ pPc' = [pPc EXCEPT ![st] = "panicked"]
    /\ pItem' = [pItem EXCEPT ![st] = 0]
    /\ pChan' = [pChan EXCEPT ![st] = <<>>]
    /\ UNCHANGED pSounding
    /\ UNCHANGED <<pTarget, pCaps, pDeepl, pNext, pDropped, pPlayed, pRun>>
    /\ PipeOthersUnchanged

\* lines 209-219: try_join! has seen every task return; the tasks' own
\* Results are discarded by `let _ =`
RunJoin ==
    /\ pRun = "running"
    /\ \A st \in Stages : pPc[st] \in {"ok", "err"}
    /\ pRun' = "Ok"
    /\ UNCHANGED pSounding
    /\ UNCHANGED <<pTarget, pCaps, pDeepl, pChan, pPc, pItem, pNext, pDropped,
                   pPlayed>>
    /\ PipeOthersUnchanged

\* lines 209-217: try_join! sees a JoinError and run returns ChannelClosed
RunJoinErr ==
    /\ pRun = "running"
    /\ \E st \in Stages : pPc[st] = "panicked"
    /\ pRun' = "Err"
    /\ UNCHANGED pSounding
    /\ UNCHANGED <<pTarget, pCaps, pDeepl, pChan, pPc, pItem, pNext, pDropped,
                   pPlayed>>
    /\ PipeOthersUnchanged

\* the steps of one stage task when no task panics
StageStep(st) ==
    \/ Recv(st)
    \/ RecvClosed(st)
    \/ st < 5 /\ Send(st)
    \/ st < 5 /\ \E ok \in BOOLEAN : Work(st, ok)
    \/ st = 5 /\ \E ok \in BOOLEAN : Play(ok)
    \/ st = 5 /\ PlayAccept

NextPipe ==
    \/ IngestEmit
    \/ \E ok \in BOOLEAN : IngestEnd(ok)
    \/ Send(0)
    \/ \E st \in 1..5 : StageStep(st)
    \/ SoundEnd
    \/ RunJoin

\* no task panics: every per-item operation returns Ok or Err
SpecPipe == InitPipe /\ [][NextPipe]_vars

\* every task that is not waiting for the ingestor's source keeps running
\* (tokio schedules every ready task; each per-item operation terminates)
\* and the output device keeps consuming the samples queued on it
SpecPipeFair ==
    /\ SpecPipe
    /\ WF_vars(Send(0))
    /\ \A st \in 1..5 : WF_vars(StageStep(st))
    /\ WF_vars(SoundEnd)
    /\ WF_vars(RunJoin)

NextPipeCrash ==
    \/ NextPipe
    \/ \E st \in 1..5 : StagePanic(st)
    \/ \E st \in 0..4 : SendClosed(st)
    \/ RunJoinErr

\* a per-item operation may also panic, which drops the task's receiver
SpecPipeCrash == InitPipe /\ [][NextPipeCrash]_vars

\* the items of a sequence
Range(q) == {q[k] : k \in 1..Len(q)}
\* q lists items in the order the ingestor emitted them, none twice
Ascending(q) == \A k \in 2..Len(q) : q[k - 1] < q[k]
\* the items emitted so far
Emitted == 1..(pNext - 1)
\* the items a task has in hand
InHand == {pItem[st] : st \in Stages} \ {0}
\* the items queued in some channel
Queued == UNION {Range(pChan[ch]) : ch \in Channels}
\* number of places (channel slots, hands) that hold an item
PlacesHeld ==
    Cardinality({st \in Stages : pItem[st] # 0})
        + Len(pChan[1]) + Len(pChan[2]) + Len(pChan[3]) + Len(pChan[4])
        + Len(pChan[5])

\* C22: the clips reaching playback are an order-preserving subsequence of
\* the items emitted by the ingestor, none delivered twice; on the way every
\* channel holds its items in emission order, and an item further down the
\* pipeline was emitted before every item further up.
C22_OrderPreserved ==
    /\ Ascending(pPlayed)
    /\ Range(pPlayed) \subseteq Emitted
    /\ \A ch \in Channels : Ascending(pChan[ch])
    /\ \A ch \in Channels : \A k \in 1..Len(pChan[ch]) :
          /\ pItem[ch] # 0 => pItem[ch] < pChan[ch][k]
          /\ pItem[ch - 1] # 0 => pChan[ch][k] < pItem[ch - 1]
          /\ \A up \in Channels : \A j \in 1..Len(pChan[up]) :
                up < ch => pChan[up][j] > pChan[ch][k]
    /\ \A k \in 1..Len(pPlayed) :
          \A x \in InHand \cup Queued : pPlayed[k] < x
    /\ PlacesHeld = Cardinality(InHand \cup Queued)

\* C22 witness: item 2 was dropped on the way, items 1 and 3 reached
\* playback in that order.
C22_Witness == pPlayed = <<1, 3>> /\ 2 \in pDropped

\* stage st got an error for the item it held and dropped it in this step
ItemFailed(st) ==
    /\ pPc[st] = "work"
    /\ pItem[st] # 0 /\ pItem'[st] = 0
    /\ pItem[st] \in pDropped' \ pDropped

\* C23: a per-item error of a stage only drops that item: nothing is sent
\* downstream for it, the stage does not terminate and waits for the next
\* item; a stage task returns only when its input channel is closed and
\* empty, and then with Ok.
C23_ItemErrorIsNotFatal ==
    /\ [][\A st \in 1..5 :
            ItemFailed(st) =>
                /\ pPc'[st] = "recv"
                /\ UNCHANGED <<pChan, pRun>>
                /\ \A other \in Stages \ {st} : pPc'[other] = pPc[other]]_vars
    /\ [](\A st \in 1..5 :
            Terminated(st) => (pPc[st] = "ok" /\ SenderGone(st)))

\* C23 witness: item 1 failed in playback, item 2 failed in an earlier
\* stage, item 3 was still played and no task has terminated.
C23_Witness ==
    /\ pDropped = {1, 2}
    /\ pPlayed = <<1, 3>>
    /\ \A st \in Stages : ~Terminated(st)

\* C24: once the ingestor task has ended, every later stage drains its input
\* channel in order, returns Ok and drops its sender, all six tasks complete
\* and Pipeline::run returns: at that point every emitted item was played or
\* dropped after a per-item error.
C24_ClosurePropagatesDownstream ==
    /\ (Terminated(0) ~> ((\A st \in Stages : Terminated(st)) /\ pRun = "Ok"))
    /\ [](\A st \in 1..5 :
            Terminated(st) =>
                /\ pPc[st] = "ok"
                /\ SenderGone(st)
                /\ pChan[st] = <<>> /\ pItem[st] = 0)
    /\ [](pRun = "Ok" =>
            /\ \A st \in Stages : Terminated(st)
            /\ Emitted = Range(pPlayed) \cup pDropped
            /\ Ascending(pPlayed))

\* C24 witness: the ingestor ended after three items, all of them were
\* played and run has returned.
C24_Witness ==
    /\ pRun = "Ok" /\ pPc[0] = "ok"
    /\ pPlayed = <<1, 2, 3>>
    /\ \A st \in Stages : Terminated(st)

\* stage st completes a send in this step although the receiver is gone
SendFails(st) ==
    /\ pPc[st] = "send" /\ pPc'[st] # "send"
    /\ ReceiverGone(st + 1)

\* C25 as stated: a stage whose send fails returns with ChannelClosed.
C25_Original ==
    [][\A st \in 0..4 : SendFails(st) => pPc'[st] = "err"]_vars

\* C25: a send into a channel whose receiver was dropped fails and queues
\* nothing; decode, ASR, translate and TTS then return Err(ChannelClosed),
\* the ingestor returns Ok(()); in both cases the task processes no further
\* item and its own input receiver is dropped with everything queued in it,
\* so the next send of the stage upstream fails in the same way.
C25_SendFailureIsTerminal ==
    [][\A st \in 0..4 :
        /\ SendFails(st) =>
              /\ pPc'[st] = (IF st = 0 THEN "ok" ELSE "err")
              /\ pItem'[st] = 0
              /\ pChan'[st + 1] = pChan[st + 1]
              /\ st \in Channels => (pChan'[st] = <<>> /\ ReceiverGone(st)')
        /\ Terminated(st) =>
              /\ pPc'[st] = pPc[st] /\ pItem'[st] = pItem[st]
              /\ Len(pChan'[st + 1]) <= Len(pChan[st + 1])
        /\ (ReceiverGone(st + 1) /\ pChan[st + 1] = <<>>) =>
              pChan'[st + 1] = <<>>]_vars

\* C25 witness: playback panicked while playing item 1; TTS failed to send
\* item 2 and translate then failed to send item 3: both returned
\* ChannelClosed, one after the other.
C25_Witness ==
    /\ pPc[5] = "panicked"
    /\ pPc[4] = "err" /\ pPc[3] = "err"
    /\ pNext > 3 /\ pDropped = {} /\ pPlayed = <<>>

\* an item leaves the pipeline in this step without having been played
LostNow == (InHand \cup Queued) \ ((InHand \cup Queued)' \cup Range(pPlayed'))

\* C26: each of the five channels holds at most channel_capacity items, a
\* send into a full channel waits instead of dropping or overwriting, and an
\* item leaves the pipeline only by being played or by a per-item error of
\* the stage holding it.
C26_ChannelsBoundedAndLossless ==
    /\ [](\A ch \in Channels : Len(pChan[ch]) <= pCaps[ch])
    /\ [](/\ InHand \cup Queued \cup Range(pPlayed) \cup pDropped = Emitted
          /\ (InHand \cup Queued) \cap Range(pPlayed) = {}
          /\ (InHand \cup Queued) \cap pDropped = {})
    /\ [][\A ch \in Channels :
            /\ Len(pChan[ch]) = pCaps[ch] =>
                  (pChan'[ch] = pChan[ch] \/ pChan'[ch] = Tail(pChan[ch]))
            /\ pChan'[ch] # pChan[ch] =>
                  \/ /\ pChan[ch] # <<>>
                     /\ pChan'[ch] = Tail(pChan[ch])
                     /\ pItem'[ch] = Head(pChan[ch])
                  \/ pChan'[ch] = Append(pChan[ch], pItem[ch - 1])]_vars
    /\ [][\A x \in LostNow :
            \E st \in 1..4 : pItem[st] = x /\ ItemFailed(st)]_vars

\* C26 witness: the first channel is full and the ingestor waits in send
\* with the next item in hand; nothing has been lost.
C26_Witness ==
    /\ Len(pChan[1]) = pCaps[1]
    /\ pPc[0] = "send" /\ pItem[0] = pCaps[1] + 1
    /\ pDropped = {}

\* C31: play returns Ok for an accepted clip only after the clip was appended
\* and has sounded to its end; so at most one clip sounds at a time, it is the
\* clip the playback task holds, the task receives its next clip only when
\* nothing is sounding, clips start to sound in the order they were received,
\* and while a clip sounds and the TTS channel is full the TTS task's send
\* does not complete.
C31_PlayWaitsForEndOfClip ==
    /\ [](Cardinality(pSounding) <= 1 /\ pSounding \subseteq {pItem[5]})
    /\ [][(pPc[5] = "playing" /\ pPc'[5] # "playing") =>
            /\ pItem[5] \notin pSounding
            /\ pPlayed' = Append(pPlayed, pItem[5])]_vars
    /\ [][(pItem'[5] # pItem[5] /\ pItem'[5] # 0) => pSounding = {}]_vars
    /\ [][\A x \in pSounding' \ pSounding :
            /\ x = pItem[5]
            /\ \A i \in 1..Len(pPlayed) : pPlayed[i] < x]_vars
    /\ [][pPc[5] = "playing" =>
            /\ Len(pChan'[5]) >= Len(pChan[5])
            /\ Len(pChan[5]) = pCaps[5] => pChan'[5] = pChan[5]]_vars

\* C31 witness: clip 1 is sounding inside play, clips 2 and 3 fill the TTS
\* channel, and the TTS task waits in send with clip 4.
C31_Witness ==
    /\ pPc[5] = "playing" /\ pItem[5] = 1 /\ pSounding = {1}
    /\ pCaps[5] = 2 /\ pChan[5] = <<2, 3>>
    /\ pPc[4] = "send" /\ pItem[4] = 4
    /\ pPlayed = <<>>

\* ================================================================
\* Specification SpecPlay: AudioPlaybackSink::play called on a sink and its
\* clones, which share disabled, disabled_details, output_stream,
\* output_stream_open_attempts and blank_audio_warn through Arcs
\* (playback/audio.rs)
\* ================================================================
NumClones == 1      \* clones of the sink besides the sink itself
MaxPlays == 3       \* play calls made in one behaviour
MaxAudioNow == 9    \* last instant (seconds) the audio clock reaches
AudioTick == 3      \* seconds the audio clock advances per tick

\* audio.rs line 114: Duration::from_secs(5)
WarnInterval == 5

Sinks == 0..NumClones

\* TtsAudio as play sees it: sample_rate_hz, channels, pcm_i16.len()
Clip(rate, ch, len) == [sample_rate_hz |-> rate, channels |-> ch, len |-> len]
NoClip == Clip(0, 0, 0)
\* two playable clips and one clip for each way of being invalid
Clips ==
    { Clip(16000, 1, 3), Clip(16000, 2, 4),
      Clip(0, 1, 2), Clip(16000, 0, 2), Clip(16000, 1, 0),
      Clip(16000, 2, 3) }

\* the test of lines 206-210 without its last disjunct
IsInvalidNoRemainder(clip) ==
    \/ clip.sample_rate_hz = 0
    \/ clip.channels = 0
    \/ clip.len = 0

\* lines 206-210
IsInvalid(clip) ==
    \/ clip.sample_rate_hz = 0
    \/ clip.channels = 0
    \/ clip.len = 0
    \/ (clip.channels # 0 /\ clip.len % clip.channels # 0)

\* RateLimitedWarn::should_log that never refreshes a stamp already set
ShouldLogKeepStamp(last, t) ==
    IF last = None THEN [log |-> TRUE, last |-> t]
    ELSE IF t - last >= WarnInterval THEN [log |-> TRUE, last |-> last]
    ELSE [log |-> FALSE, last |-> last]

\* RateLimitedWarn::should_log, lines 78-88, with `t` the instant read at
\* line 77 while the lock is held: the value returned and the new `last`
ShouldLog(last, t) ==
    IF last = None THEN [log |-> TRUE, last |-> t]
    ELSE IF t - last >= WarnInterval THEN [log |-> TRUE, last |-> t]
    ELSE [log |-> FALSE, last |-> last]

\* the StreamError values rodio can return from opening a stream
StreamErrors == {"NoDevice", "BuildStreamError"}
\* output_device_name: None ("") or a configured name
DeviceNames == {"", "Speakers"}

\* format_stream_error_details, lines 313-317: "{context}: {err}" and, with
\* a configured device, " (configured_device={w})"; the text is kept as the
\* sequence of its parts
FormatStreamErrorDetails(err, wanted, context) ==
    <<context, err>> \o (IF wanted = "" THEN <<>>
                         ELSE <<"configured_device", wanted>>)

\* details.contains(word) on a text kept as the sequence of its parts
Contains(details, word) == \E i \in 1..Len(details) : details[i] = word

\* the test of line 234 replaced by false
MarksDisabledNever(details) == FALSE
\* line 234: details.contains("NoDevice")
MarksDisabled(details) == Contains(details, "NoDevice")

OpenOk == [ok |-> TRUE, details |-> <<>>]
OpenErr(details) == [ok |-> FALSE, details |-> details]
\* OutputStreamBuilder::open_default_stream().map_err(..) of lines 143-151,
\* 164-172 and 175-179: every result the platform can give
OpenDefault(wanted, context) ==
    {OpenOk} \cup
    {OpenErr(FormatStreamErrorDetails(e, wanted, context)) :
        e \in StreamErrors}
\* open_output_stream, lines 134-180: every result it can return for the
\* configured device name
OpenOutputStream(device) ==
    IF device = ""
    THEN OpenDefault("", "open default output stream")
    ELSE {OpenOk}
         \cup OpenDefault(device,
                "default-device fallback after named device not found")
         \cup OpenDefault(device,
                "default-device fallback after named device open failed")

\* LazyInit that runs init on every call
NeedsInitAlways(stream) == TRUE
\* LazyInit::get_or_try_init_with line 47: guard.is_none()
NeedsInit(stream) == stream = 0

\* what play returned, with what it did on the way
NoRet == [clip |-> NoClip, saw |-> FALSE, ret |-> "none"]
PlayResult(clip, saw, ret) == [clip |-> clip, saw |-> saw, ret |-> ret]

AudioOthersUnchanged ==
    UNCHANGED <<extractVars, stateVars, bufVars, runVars, jitterVars, ttsVars,
                retryVars, statusVars, pipeVars, callVars, pollVars>>

\* AudioPlaybackSink::new (lines 106-116), optionally followed by
\* with_output_device_name (118-121), then clone()
InitPlay ==
    /\ aDevice \in DeviceNames
    /\ aDisabled = FALSE /\ aDetails = <<>> /\ aStream = 0 /\ aAttempts = 0
    /\ aLast = None /\ aNow = 0
    /\ aPc = [c \in Sinks |-> "idle"]
    /\ aClip = [c \in Sinks |-> NoClip]
    /\ aErr = [c \in Sinks |-> <<>>]
    /\ aRet = [c \in Sinks |-> NoRet]
    /\ aBegun = 0 /\ aOpens = <<>> /\ aAppends = <<>> /\ aCalls = <<>>
    /\ ExtractIdle /\ StateIdle /\ BufIdle /\ RunIdle /\ JitterIdle /\ TtsIdle
    /\ RetryIdle /\ StatusIdle /\ PipeIdle /\ CallIdle /\ PollIdle

\* the clock advances
AudioClock ==
    /\ aNow + AudioTick <= MaxAudioNow
    /\ aNow' = aNow + AudioTick
    /\ UNCHANGED <<aDevice, aDisabled, aDetails, aStream, aAttempts, aLast,
                   aPc, aClip, aErr, aRet, aBegun, aOpens, aAppends, aCalls>>
    /\ AudioOthersUnchanged

\* play lines 198-202: the call begins and loads `disabled`; a disabled
\* sink returns Ok(()) at once
PlayBegin(c, clip) ==
    /\ aPc[c] = "idle"
    /\ aBegun < MaxPlays
    /\ aBegun' = aBegun + 1
    /\ IF aDisabled
       THEN /\ aRet' = [aRet EXCEPT ![c] = PlayResult(clip, TRUE, "Ok")]
            /\ UNCHANGED <<aPc, aClip>>
       ELSE /\ aRet' = [aRet EXCEPT ![c] = PlayResult(clip, FALSE, "none")]
            /\ aClip' = [aClip EXCEPT ![c] = clip]
            /\ aPc' = [aPc EXCEPT ![c] = "checked"]
    /\ UNCHANGED <<aDevice, aDisabled, aDetails, aStream, aAttempts, aLast,
                   aNow, aErr, aOpens, aAppends, aCalls>>
    /\ AudioOthersUnchanged

\* play lines 206-228: an invalid clip asks the rate limiter whether to
\* warn and returns Ok(())
PlayBlank(c) ==
    /\ aPc[c] = "checked"
    /\ IsInvalid(aClip[c])
    /\ LET r == ShouldLog(aLast, aNow)
       IN /\ aLast' = r.last
          /\ aCalls' = Append(aCalls, [at |-> aNow, log |-> r.log])
    /\ aRet' = [aRet EXCEPT ![c].ret = "Ok"]
    /\ aClip' = [aClip EXCEPT ![c] = NoClip]
    /\ aPc' = [aPc EXCEPT ![c] = "idle"]
    /\ UNCHANGED <<aDevice, aDisabled, aDetails, aStream, aAttempts, aNow,
                   aErr, aBegun, aOpens, aAppends>>
    /\ AudioOthersUnchanged

\* play line 230, connect_sink (183-194) and get_or_try_init_with (30-55):
\* under the cache lock, an empty cache runs open_output_stream (which
\* counts the attempt, lines 124-127) and keeps the stream only when it
\* succeeded; a filled cache is reused
PlayConnect(c) ==
    /\ aPc[c] = "checked"
    /\ ~IsInvalid(aClip[c])
    /\ IF NeedsInit(aStream)
       THEN \E r \in OpenOutputStream(aDevice) :
              /\ aAttempts' = aAttempts + 1
              /\ aOpens' = Append(aOpens,
                     [ok |-> r.ok, details |-> r.details,
                      disabled |-> aDisabled, cached |-> aStream])
              /\ IF r.ok
                 THEN /\ aStream' = aAttempts + 1
                      /\ aPc' = [aPc EXCEPT ![c] = "connected"]
                      /\ UNCHANGED aErr
                 ELSE /\ aPc' = [aPc EXCEPT ![c] = "failed"]
                      /\ aErr' = [aErr EXCEPT ![c] = r.details]
                      /\ UNCHANGED aStream
       ELSE /\ aPc' = [aPc EXCEPT ![c] = "connected"]
            /\ UNCHANGED <<aAttempts, aOpens, aStream, aErr>>
    /\ UNCHANGED <<aDevice, aDisabled, aDetails, aLast, aNow, aClip, aRet,
                   aBegun, aAppends, aCalls>>
    /\ AudioOthersUnchanged

\* play lines 232-240: an error whose details contain "NoDevice" disables
\* the sink and records the details once; the error is returned
PlayFail(c) ==
    /\ aPc[c] = "failed"
    /\ IF MarksDisabled(aErr[c])
       THEN /\ aDisabled' = TRUE
            /\ aDetails' = IF aDetails = <<>> THEN aErr[c] ELSE aDetails
       ELSE UNCHANGED <<aDisabled, aDetails>>
    /\ aRet' = [aRet EXCEPT ![c].ret = "Err"]
    /\ aErr' = [aErr EXCEPT ![c] = <<>>]
    /\ aClip' = [aClip EXCEPT ![c] = NoClip]
    /\ aPc' = [aPc EXCEPT ![c] = "idle"]
    /\ UNCHANGED <<aDevice, aStream, aAttempts, aLast, aNow, aBegun,
                   aOpens, aAppends, aCalls>>
    /\ AudioOthersUnchanged

\* play lines 243-248: the clip is appended to the sink connected to the
\* cached stream, played to its end, and Ok(()) is returned
PlayAppend(c) ==
    /\ aPc[c] = "connected"
    /\ aAppends' = Append(aAppends, [by |-> c, stream |-> aStream])
    /\ aRet' = [aRet EXCEPT ![c].ret = "Ok"]
    /\ aClip' = [aClip EXCEPT ![c] = NoClip]
    /\ aPc' = [aPc EXCEPT ![c] = "idle"]
    /\ UNCHANGED <<aDevice, aDisabled, aDetails, aStream, aAttempts, aLast,
                   aNow, aErr, aBegun, aOpens, aCalls>>
    /\ AudioOthersUnchanged

NextPlay ==
    \/ AudioClock
    \/ \E c \in Sinks, clip \in Clips : PlayBegin(c, clip)
    \/ \E c \in Sinks : PlayBlank(c)
    \/ \E c \in Sinks : PlayConnect(c)
    \/ \E c \in Sinks : PlayFail(c)
    \/ \E c \in Sinks : PlayAppend(c)

SpecPlay == InitPlay /\ [][NextPlay]_vars

\* a clip the blank-audio guard must reject: no sample rate, no channels, no
\* samples, or a sample count that is not a whole number of frames
InvalidDimensions(clip) ==
    \/ clip.sample_rate_hz = 0
    \/ clip.channels = 0
    \/ clip.len = 0
    \/ (clip.channels > 0 /\ clip.len % clip.channels # 0)

\* the step is taken by the play call of sink c
StepOf(c) == aPc'[c] # aPc[c] \/ aRet'[c] # aRet[c]
\* the clip of the play call of sink c that takes or has just begun the step
ClipOf(c) == IF aPc[c] = "idle" THEN aRet'[c].clip ELSE aClip[c]
\* the state of the device as play can change it
DeviceState == <<aDisabled, aDetails, aStream, aAttempts, aOpens, aAppends>>

\* C27: a play call whose TtsAudio has sample_rate_hz == 0, channels == 0, no
\* samples or a sample count not divisible by channels returns Ok(()) and
\* never touches the device: none of its steps opens a stream, appends to a
\* sink, or changes the disabled flag or the stream cache.
C27_InvalidClipNeverReachesDevice ==
    /\ [](\A c \in Sinks :
            /\ (aRet[c].ret # "none" /\ InvalidDimensions(aRet[c].clip))
                  => aRet[c].ret = "Ok"
            /\ aPc[c] \in {"connected", "failed"}
                  => ~InvalidDimensions(aClip[c]))
    /\ [][\A c \in Sinks :
            (StepOf(c) /\ InvalidDimensions(ClipOf(c))) =>
                /\ DeviceState' = DeviceState
                /\ aPc[c] = "checked" =>
                      (aPc'[c] = "idle" /\ aRet'[c].ret = "Ok")]_vars

\* C27 witness: with the stream already open and the sink enabled, a clip
\* whose sample count is not a multiple of its channel count has been
\* refused with Ok(()) and a warning, and a second invalid clip without one.
C27_Witness ==
    /\ aStream # 0 /\ ~aDisabled /\ Len(aAppends) = 1 /\ aAttempts = 1
    /\ aRet[0] = PlayResult(Clip(16000, 2, 3), FALSE, "Ok")
    /\ aRet[1] = PlayResult(Clip(16000, 0, 2), FALSE, "Ok")
    /\ Len(aCalls) = 2 /\ aCalls[1].log /\ ~aCalls[2].log

\* the open_output_stream calls that returned a stream
OkOpens == {i \in 1..Len(aOpens) : aOpens[i].ok}

\* C29: open_output_stream runs only inside a play call that holds a valid
\* clip and finds the cache empty; it succeeds at most once for a sink and
\* all its clones; once it has succeeded the cached stream never changes, no
\* further open is attempted and every append goes to that stream; an open
\* that fails leaves the cache empty.
C29_StreamOpenedLazilyOnce ==
    /\ [](/\ aAttempts = Len(aOpens)
          /\ Cardinality(OkOpens) <= 1
          /\ \A i \in 1..Len(aOpens) : aOpens[i].cached = 0
          /\ aStream # 0 <=> OkOpens # {}
          /\ aStream # 0 => OkOpens = {aStream}
          /\ \A i \in 1..Len(aAppends) :
                aStream # 0 /\ aAppends[i].stream = aStream)
    /\ [][aAttempts' # aAttempts =>
            \E c \in Sinks :
                /\ aPc[c] = "checked" /\ aPc'[c] # "checked"
                /\ ~InvalidDimensions(aClip[c])]_vars
    /\ [][aStream # 0 =>
            (aStream' = aStream /\ aAttempts' = aAttempts)]_vars
    /\ [][(aAttempts' # aAttempts /\ ~aOpens'[Len(aOpens')].ok) =>
            aStream' = 0]_vars

\* C29 witness: the first open failed and left the cache empty, the second,
\* made by a later play, succeeded, and the sink and its clone have both
\* appended a clip to that one stream with no third open.
C29_Witness ==
    /\ Len(aOpens) = 2 /\ ~aOpens[1].ok /\ aOpens[2].ok
    /\ aStream = 2 /\ aAttempts = 2
    /\ Len(aAppends) = 2
    /\ aAppends[1].by # aAppends[2].by
    /\ aAppends[1].stream = 2 /\ aAppends[2].stream = 2

\* the open_output_stream calls made while `disabled` was already true
OpensWhileDisabled == {i \in 1..Len(aOpens) : aOpens[i].disabled}
\* the play calls that have loaded `disabled` as false and not yet reached
\* connect_sink
PastDisabledCheck == {c \in Sinks : aPc[c] = "checked"}

\* C30 as stated: while no open has succeeded, every play that returned an
\* error has left the sink disabled, and at most one open has failed.
C30_Original ==
    OkOpens = {} =>
        /\ \A c \in Sinks : aRet[c].ret = "Err" => aDisabled
        /\ Len(aOpens) <= 1

\* C30: a play whose open fails with details containing "NoDevice" stores
\* disabled = true and returns the error, and no other step sets the flag; a
\* play that fails with other details leaves the flag alone; the flag is
\* never cleared; a play that begins on a disabled sink or clone returns
\* Ok(()) at once and changes nothing; opens made while the flag is set come
\* only from calls that had passed the flag test before it was set, at most
\* one for each other clone.
C30_NoDeviceDisablesForGood ==
    /\ [][aDisabled => aDisabled']_vars
    /\ [][\A c \in Sinks :
            (aPc[c] = "failed" /\ aPc'[c] # "failed") =>
                /\ aRet'[c].ret = "Err"
                /\ Contains(aErr[c], "NoDevice") => aDisabled'
                /\ ~Contains(aErr[c], "NoDevice") =>
                      aDisabled' = aDisabled]_vars
    /\ [][(~aDisabled /\ aDisabled') =>
            \E c \in Sinks :
                /\ aPc[c] = "failed" /\ aPc'[c] = "idle"
                /\ Contains(aErr[c], "NoDevice")]_vars
    /\ [][\A c \in Sinks :
            (aDisabled /\ aPc[c] = "idle" /\ aRet'[c] # aRet[c]) =>
                /\ aRet'[c].ret = "Ok" /\ aPc'[c] = "idle"
                /\ DeviceState' = DeviceState
                /\ aLast' = aLast /\ aCalls' = aCalls]_vars
    /\ [](aDisabled =>
            Cardinality(OpensWhileDisabled) + Cardinality(PastDisabledCheck)
                <= NumClones)

\* C30 witness: the sink's open failed with NoDevice and disabled it; the
\* clone then played a valid clip, which returned Ok(()) with no second
\* open and nothing appended.
C30_Witness ==
    /\ aDisabled
    /\ Len(aOpens) = 1 /\ Contains(aOpens[1].details, "NoDevice")
    /\ aAttempts = 1 /\ aStream = 0 /\ aAppends = <<>>
    /\ aRet[0] = PlayResult(Clip(16000, 1, 3), FALSE, "Err")
    /\ aRet[1] = PlayResult(Clip(16000, 2, 4), TRUE, "Ok")
    /\ aDetails = aOpens[1].details

\* ================================================================
\* Specification SpecWarn: RateLimitedWarn::should_log called on one limiter
\* from any number of threads; a call holds the `last` mutex from line 72 to
\* its return and reads the clock at line 77 inside it, so calls are atomic
\* and totally ordered
\* ================================================================
MaxCalls == 4       \* should_log calls made in one behaviour
MaxWarnNow == 11    \* last instant (seconds) the limiter's clock reaches

WarnOthersUnchanged ==
    /\ UNCHANGED <<aDevice, aDisabled, aDetails, aStream, aAttempts, aPc,
                   aClip, aErr, aRet, aOpens, aAppends>>
    /\ AudioOthersUnchanged

\* RateLimitedWarn::new(Duration::from_secs(5)), lines 64-69
InitWarn ==
    /\ aLast = None /\ aNow = 0 /\ aBegun = 0 /\ aCalls = <<>>
    /\ aDevice = "" /\ aDisabled = FALSE /\ aDetails = <<>> /\ aStream = 0
    /\ aAttempts = 0 /\ aPc = <<>> /\ aClip = <<>> /\ aErr = <<>>
    /\ aRet = <<>> /\ aOpens = <<>> /\ aAppends = <<>>
    /\ ExtractIdle /\ StateIdle /\ BufIdle /\ RunIdle /\ JitterIdle /\ TtsIdle
    /\ RetryIdle /\ StatusIdle /\ PipeIdle /\ CallIdle /\ PollIdle

\* one second passes
WarnClock ==
    /\ aNow < MaxWarnNow
    /\ aNow' = aNow + 1
    /\ UNCHANGED <<aLast, aBegun, aCalls>>
    /\ WarnOthersUnchanged

\* should_log, lines 71-89
WarnCall ==
    /\ aBegun < MaxCalls
    /\ aBegun' = aBegun + 1
    /\ LET r == ShouldLog(aLast, aNow)
       IN /\ aLast' = r.last
          /\ aCalls' = Append(aCalls, [at |-> aNow, log |-> r.log])
    /\ UNCHANGED aNow
    /\ WarnOthersUnchanged

NextWarn == WarnClock \/ WarnCall

SpecWarn == InitWarn /\ [][NextWarn]_vars

\* the calls that returned true before call i
LoggedBefore(i) == {j \in 1..(i - 1) : aCalls[j].log}
\* the latest call before call i that returned true
LastLogged(i) == CHOOSE j \in LoggedBefore(i) : \A k \in LoggedBefore(i) : k <= j

\* C28: the first should_log call returns true; a later call returns true only
\* when at least the interval has passed since the last call that returned
\* true, so any two warnings are at least one interval apart; `last` holds
\* the instant of the latest call that returned true.
C28_OneWarningPerWindow ==
    /\ aCalls # <<>> => aCalls[1].log
    /\ \A i \in 2..Len(aCalls) :
          aCalls[i].log =>
              aCalls[i].at - aCalls[LastLogged(i)].at >= WarnInterval
    /\ \A i, j \in 1..Len(aCalls) :
          (i < j /\ aCalls[i].log /\ aCalls[j].log) =>
              aCalls[j].at - aCalls[i].at >= WarnInterval
    /\ aCalls # <<>> =>
          aLast = aCalls[LastLogged(Len(aCalls) + 1)].at

\* C28 witness: the first call, at 0, warned; a call at 4 did not; a call at
\* 5, exactly one interval after the first, warned and restarted the window;
\* a call at 9 did not warn although 9 s had passed since the first.
C28_Witness ==
    /\ Len(aCalls) = 4
    /\ aCalls[1] = [at |-> 0, log |-> TRUE]
    /\ aCalls[2] = [at |-> 4, log |-> FALSE]
    /\ aCalls[3] = [at |-> 5, log |-> TRUE]
    /\ aCalls[4] = [at |-> 9, log |-> FALSE]

\* ================================================================
\* Specification SpecSelect: HlsVariantSelector::select_from_master applied
\* to a master playlist (ingest/mod.rs)
\* ================================================================
MaxEntries == 2     \* most alternatives, and most variants, of a playlist

CallOthersUnchanged ==
    UNCHANGED <<extractVars, stateVars, bufVars, runVars, jitterVars, ttsVars,
                retryVars, statusVars, pipeVars, audioVars, pollVars>>

\* Option<String>::None for the URI of an alternative
NoUri == <<>>
\* URIs are kept as the sequence of their parts; a part "[" stands for text
\* that Url::join rejects
AlternativeUris == {NoUri, <<"audio", "only">>, <<"aac">>, <<"audio", "[">>}
Alternatives ==
    [media_type : {"Audio"}, uri : AlternativeUris]
        \cup [media_type : {"Video"}, uri : {<<"video">>}]
VariantNames == <<"v1", "v2", "v3", "v4">>
Bandwidths == {800, 3000}
\* the variants that can stand at position i of mp.variants
VariantsAt(i) ==
    [uri : {<<VariantNames[i]>>, <<VariantNames[i], "[">>},
     bandwidth : Bandwidths,
     average_bandwidth : Bandwidths \cup {None}]
SeqsUpTo(S, n) == UNION {[1..k -> S] : k \in 0..n}
MasterPlaylists ==
    [alternatives : SeqsUpTo(Alternatives, MaxEntries),
     variants : UNION {{v \in [1..k -> UNION {VariantsAt(i) : i \in 1..k}] :
                          \A i \in 1..k : v[i] \in VariantsAt(i)} :
                       k \in 0..MaxEntries}]

\* base_url.join(uri)?, lines 401 and 417
UrlJoin(base, uri) ==
    IF Contains(uri, "[") THEN [ok |-> FALSE, value |-> "Url"]
    ELSE [ok |-> TRUE, value |-> <<base>> \o uri]
NoUsableVariant == [ok |-> FALSE, value |-> "NoUsableVariant"]

\* the positions of the alternatives that pass filter and filter_map,
\* lines 423-425 and 430-432
AudioWithUri(mp) ==
    {i \in 1..Len(mp.alternatives) :
        /\ mp.alternatives[i].media_type = "Audio"
        /\ mp.alternatives[i].uri # NoUri}
LeastOf(S) == CHOOSE i \in S : \A j \in S : i <= j
\* select_audio_only_from_master without the preference for "audio"
SelectAudioOnlyFirst(mp) ==
    IF AudioWithUri(mp) # {}
    THEN mp.alternatives[LeastOf(AudioWithUri(mp))].uri
    ELSE NoUri
\* select_audio_only_from_master, lines 420-436
SelectAudioOnlyFromMaster(mp) ==
    LET named == {i \in AudioWithUri(mp) :
                     Contains(mp.alternatives[i].uri, "audio")}
    IN IF named # {} THEN mp.alternatives[LeastOf(named)].uri
       ELSE IF AudioWithUri(mp) # {}
            THEN mp.alternatives[LeastOf(AudioWithUri(mp))].uri
            ELSE NoUri

\* line 407: v.average_bandwidth.unwrap_or(v.bandwidth)
Bw(v) == IF v.average_bandwidth # None THEN v.average_bandwidth
         ELSE v.bandwidth
\* the loop of lines 405-412 from position i on, `best` being the position
\* held so far (0 for None)
RECURSIVE BestVariant(_, _, _)
BestVariant(variants, i, best) ==
    IF i > Len(variants) THEN best
    ELSE IF best = 0 \/ Bw(variants[i]) < Bw(variants[best])
         THEN BestVariant(variants, i + 1, i)
         ELSE BestVariant(variants, i + 1, best)

\* select_from_master, lines 398-418
SelectFromMaster(audio_only, base, mp) ==
    IF audio_only /\ SelectAudioOnlyFromMaster(mp) # NoUri
    THEN UrlJoin(base, SelectAudioOnlyFromMaster(mp))
    ELSE LET best == BestVariant(mp.variants, 1, 0)
         IN IF best = 0 THEN NoUsableVariant
            ELSE UrlJoin(base, mp.variants[best].uri)

InitSelect ==
    /\ fArgs \in [audio_only : BOOLEAN, base : {"base"}, mp : MasterPlaylists]
    /\ fResult = NotCalled
    /\ ExtractIdle /\ StateIdle /\ BufIdle /\ RunIdle /\ JitterIdle /\ TtsIdle
    /\ RetryIdle /\ StatusIdle /\ PipeIdle /\ AudioIdle /\ PollIdle

SelectCall ==
    /\ fResult = NotCalled
    /\ fResult' = SelectFromMaster(fArgs.audio_only, fArgs.base, fArgs.mp)
    /\ UNCHANGED fArgs
    /\ CallOthersUnchanged

SpecSelect == InitSelect /\ [][SelectCall]_vars

\* the URI the selector is to choose, NoUri if the playlist has none
WantedAlternative(mp) ==
    LET audio == {i \in 1..Len(mp.alternatives) :
                     /\ mp.alternatives[i].media_type = "Audio"
                     /\ mp.alternatives[i].uri # NoUri}
        named == {i \in audio : \E k \in 1..Len(mp.alternatives[i].uri) :
                                    mp.alternatives[i].uri[k] = "audio"}
    IN IF named # {}
       THEN mp.alternatives[CHOOSE i \in named : \A j \in named : i <= j].uri
       ELSE IF audio # {}
       THEN mp.alternatives[CHOOSE i \in audio : \A j \in audio : i <= j].uri
       ELSE NoUri
WantedVariant(mp) ==
    LET n == Len(mp.variants)
        bw(i) == IF mp.variants[i].average_bandwidth # None
                 THEN mp.variants[i].average_bandwidth
                 ELSE mp.variants[i].bandwidth
    IN IF n = 0 THEN NoUri
       ELSE mp.variants[CHOOSE i \in 1..n :
                /\ \A j \in 1..n : bw(i) <= bw(j)
                /\ \A j \in 1..(i - 1) : bw(j) > bw(i)].uri
WantedUri(audio_only, mp) ==
    IF audio_only /\ WantedAlternative(mp) # NoUri THEN WantedAlternative(mp)
    ELSE WantedVariant(mp)

\* C32 as stated: the call returns the wanted entry joined against the base
\* URL, and NoUsableVariant when there is no such entry.
C32_Original ==
    fResult # NotCalled =>
        LET w == WantedUri(fArgs.audio_only, fArgs.mp)
        IN IF w = NoUri THEN fResult = NoUsableVariant
           ELSE fResult = [ok |-> TRUE, value |-> <<fArgs.base>> \o w]

\* C32: select_from_master picks, when audio-only is requested, the first
\* Audio alternative whose URI contains "audio", else the first Audio
\* alternative with a URI; otherwise the variant of least bandwidth
\* (average_bandwidth if present, else bandwidth; the earliest on ties). It
\* returns that URI joined against the base URL, the URL error when the URI
\* does not join (no other entry is tried), and NoUsableVariant only when
\* there is no entry to pick.
C32_SelectsAudioThenLeastBandwidth ==
    fResult # NotCalled =>
        LET w == WantedUri(fArgs.audio_only, fArgs.mp)
        IN /\ w = NoUri <=> fResult = NoUsableVariant
           /\ w # NoUri => fResult = UrlJoin(fArgs.base, w)
           /\ fResult.ok => fResult.value = <<fArgs.base>> \o w

\* C32 witness: audio-only is requested; the first Audio alternative has no
\* "audio" in its URI, the second has, and is returned although a variant
\* exists.
C32_Witness ==
    /\ fArgs.audio_only
    /\ Len(fArgs.mp.alternatives) = 2
    /\ fArgs.mp.alternatives[1] = [media_type |-> "Audio", uri |-> <<"aac">>]
    /\ fArgs.mp.alternatives[2].uri = <<"audio", "only">>
    /\ Len(fArgs.mp.variants) = 2
    /\ fResult = [ok |-> TRUE, value |-> <<"base", "audio", "only">>]

\* ================================================================
\* Specification SpecAsr: WhisperAsrBackend::transcribe applied to a
\* PcmChunk (asr/whisper.rs)
\* ================================================================
MaxChunkSamples == 3    \* most samples of a chunk

\* PcmChunk as transcribe can see it: its format and the number of samples
PcmChunks ==
    [format : [sample_rate : {8000, 16000, 44100, 48000},
               channels : {1, 2},
               sample_type : {"F32", "I16"}],
     len : 0..MaxChunkSamples]
\* PcmFormat::whisper_f32_mono_16khz, decode/mod.rs lines 25-31
TargetFormat == [sample_rate |-> 16000, channels |-> 1, sample_type |-> "F32"]

AsrErr(e, inferred) == [ok |-> FALSE, value |-> e, inferred |-> inferred]
\* transcribe, whisper.rs lines 41-78: `full_ok` is whether state.full
\* (line 54) succeeded; the chunk's format is never read
Transcribe(audio, full_ok) ==
    IF audio.len = 0 THEN AsrErr("EmptyAudio", FALSE)
    ELSE IF ~full_ok THEN AsrErr("InferenceError", TRUE)
    ELSE [ok |-> TRUE, value |-> "TranscriptSegment", inferred |-> TRUE]

InitAsr ==
    /\ fArgs \in PcmChunks
    /\ fResult = NotCalled
    /\ ExtractIdle /\ StateIdle /\ BufIdle /\ RunIdle /\ JitterIdle /\ TtsIdle
    /\ RetryIdle /\ StatusIdle /\ PipeIdle /\ AudioIdle /\ PollIdle

AsrCall ==
    /\ fResult = NotCalled
    /\ \E full_ok \in BOOLEAN : fResult' = Transcribe(fArgs, full_ok)
    /\ UNCHANGED fArgs
    /\ CallOthersUnchanged

SpecAsr == InitAsr /\ [][AsrCall]_vars

\* C33: transcribe answers a chunk without samples with EmptyAudio and a
\* chunk whose format is not f32 / mono / 16 kHz with UnsupportedFormat, and
\* runs no inference on either.
C33_RejectsInvalidChunks ==
    fResult # NotCalled =>
        /\ (fArgs.len = 0 \/ fArgs.format # TargetFormat) =>
              (~fResult.ok /\ ~fResult.inferred)
        /\ (fArgs.len = 0 /\ fArgs.format = TargetFormat) =>
              fResult.value = "EmptyAudio"
        /\ (fArgs.len > 0 /\ fArgs.format # TargetFormat) =>
              fResult.value = "UnsupportedFormat"

\* ================================================================
\* Specification SpecConfig: the Debug and Serialize output of ApiKey and of
\* the configuration values that hold one (config.rs, pipeline/mod.rs).
\* Texts are sequences of characters. Two keys are formatted side by side so
\* that outputs can be compared.
\* ================================================================
MaxKeyLen == 2      \* most characters of a key

KeyChars == {"e", "d", "x"}
\* ApiKey::new, config.rs lines 48-54: any text that is not blank
ApiKeyValues == UNION {[1..n -> KeyChars] : n \in 1..MaxKeyLen}
ConfigKinds == {"ApiKey", "ApiKeys", "PipelineConfig", "AppConfig"}

\* haystack.contains(needle)
IsSubstring(needle, haystack) ==
    \E i \in 0..(Len(haystack) - Len(needle)) :
        SubSeq(haystack, i + 1, i + Len(needle)) = needle

\* derive(Debug) on a tuple struct: ApiKey("<key>")
DebugApiKeyDerived(key) ==
    <<"A", "p", "i", "K", "e", "y", "(", "\"">>
        \o key \o <<"\"", ")">>
\* impl fmt::Debug for ApiKey, config.rs lines 61-65
DebugApiKey(key) ==
    <<"A", "p", "i", "K", "e", "y", "(", "*", "*", "r", "e", "d", "a", "c",
      "t", "e", "d", "*", "*", ")">>

\* derive(Debug) of ApiKeys (config.rs 67-71), PipelineConfig
\* (pipeline/mod.rs 23-28) and AppConfig (config.rs 104-112) around the Debug
\* text of the key in api_keys.deepl; the other fields hold fixed values
DebugApiKeysOpen ==
    <<"A", "p", "i", "K", "e", "y", "s", " ", "{", " ", "d", "e", "e", "p",
      "l", ":", " ", "S", "o", "m", "e", "(">>
DebugApiKeysClose ==
    <<")", ",", " ", "e", "l", "e", "v", "e", "n", "l", "a", "b", "s", ":", " ", "N", "o", "n", "e", " ", "}">>
DebugPipelineOpen ==
    <<"P", "i", "p", "e", "l", "i", "n", "e", "C", "o", "n", "f", "i", "g", " ", "{", " ", "l", "a", "t", "e", "n", "c", "y", ":", " ", "L", "a", "t",
      "e", "n", "c", "y", "B", "u", "d", "g", "e", "t", " ", "{", " ", "t",
      "a", "r", "g", "e", "t", "_", "m", "s", ":", " ", "1", "5", "0", "0", " ", "}", ",", " ", "a", "p", "i", "_", "k", "e", "y", "s", ":", " ">>
DebugPipelineClose ==
    <<",", " ", "t", "a", "r", "g", "e", "t", "_", "l", "a", "n", "g", ":", " ", "T", "a", "r", "g", "e", "t", "L", "a", "n", "g", "(", "\"", "p",
      "t", "-", "B", "R", "\"", ")", " ", "}">>
DebugAppOpen ==
    <<"A", "p", "p", "C", "o", "n", "f", "i", "g", " ", "{", " ", "i", "n",
      "p", "u", "t", ":", " ", "C", "h", "a", "n", "n", "e", "l", "(", "\"",
      "c", "\"", ")", ",", " ", "t", "a", "r", "g", "e", "t", "_", "l", "a",
      "n", "g", ":", " ", "T", "a", "r", "g", "e", "t", "L", "a", "n", "g",
      "(", "\"", "p", "t", "-", "B", "R", "\"", ")", ",", " ", "a", "p", "i",
      "_", "k", "e", "y", "s", ":", " ">>
DebugAppClose ==
    <<",", " ", "l", "a", "t", "e", "n", "c", "y", ":", " ", "L", "a", "t",
      "e", "n", "c", "y", "B", "u", "d", "g", "e", "t", " ", "{", " ", "t",
      "a", "r", "g", "e", "t", "_", "m", "s", ":", " ", "1", "5", "0", "0", " ", "}", ",", " ", "t", "w", "i", "t", "c", "h", ":", " ", "T", "w", "i",
      "t", "c", "h", "C", "o", "n", "f", "i", "g", " ", "{", " ", "c", "l",
      "i", "e", "n", "t", "_", "i", "d", ":", " ", "\"", "c", "\"", ",", " ",
      "o", "a", "u", "t", "h", "_", "t", "o", "k", "e", "n", ":", " ", "N",
      "o", "n", "e", ",", " ", "h", "l", "s", "_", "a", "u", "d", "i", "o",
      "_", "o", "n", "l", "y", ":", " ", "t", "r", "u", "e", " ", "}", ",", " ", "s", "t", "a", "r", "t", "_", "t", "i", "m", "e", ":", " ", "S", "y",
      "s", "t", "e", "m", "T", "i", "m", "e", " ", "}">>
DebugApiKeys(key) ==
    DebugApiKeysOpen \o DebugApiKey(key) \o DebugApiKeysClose
DebugOf(kind, key) ==
    CASE kind = "ApiKey" -> DebugApiKey(key)
      [] kind = "ApiKeys" -> DebugApiKeys(key)
      [] kind = "PipelineConfig" ->
            DebugPipelineOpen \o DebugApiKeys(key) \o DebugPipelineClose
      [] kind = "AppConfig" ->
            DebugAppOpen \o DebugApiKeys(key) \o DebugAppClose

\* derive(Serialize) on the newtype struct ApiKey(String), config.rs line
\* 44: the inner string, here as JSON text
SerializeApiKey(key) == <<"\"">> \o key \o <<"\"">>
\* derive(Serialize) of ApiKeys and AppConfig around it; PipelineConfig does
\* not derive Serialize
SerializeApiKeysOpen ==
    <<"{", "\"", "d", "e", "e", "p", "l", "\"", ":">>
SerializeApiKeysClose ==
    <<",", "\"", "e", "l", "e", "v", "e", "n", "l", "a", "b", "s", "\"", ":",
      "n", "u", "l", "l", "}">>
SerializeAppOpen ==
    <<"{", "\"", "i", "n", "p", "u", "t", "\"", ":", "{", "\"", "C", "h", "a",
      "n", "n", "e", "l", "\"", ":", "\"", "c", "\"", "}", ",", "\"", "t",
      "a", "r", "g", "e", "t", "_", "l", "a", "n", "g", "\"", ":", "\"", "p",
      "t", "-", "B", "R", "\"", ",", "\"", "a", "p", "i", "_", "k", "e", "y",
      "s", "\"", ":">>
SerializeAppClose ==
    <<",", "\"", "l", "a", "t", "e", "n", "c", "y", "\"", ":", "{", "\"", "t",
      "a", "r", "g", "e", "t", "_", "m", "s", "\"", ":", "1", "5", "0", "0",
      "}", ",", "\"", "t", "w", "i", "t", "c", "h", "\"", ":", "{", "\"", "c",
      "l", "i", "e", "n", "t", "_", "i", "d", "\"", ":", "\"", "c", "\"", ",",
      "\"", "o", "a", "u", "t", "h", "_", "t", "o", "k", "e", "n", "\"", ":",
      "n", "u", "l", "l", ",", "\"", "h", "l", "s", "_", "a", "u", "d", "i",
      "o", "_", "o", "n", "l", "y", "\"", ":", "t", "r", "u", "e", "}", ",",
      "\"", "s", "t", "a", "r", "t", "_", "t", "i", "m", "e", "\"", ":", "{",
      "\"", "s", "e", "c", "s", "_", "s", "i", "n", "c", "e", "_", "e", "p",
      "o", "c", "h", "\"", ":", "0", ",", "\"", "n", "a", "n", "o", "s", "_",
      "s", "i", "n", "c", "e", "_", "e", "p", "o", "c", "h", "\"", ":", "0",
      "}", "}">>
SerializeApiKeys(key) ==
    SerializeApiKeysOpen \o SerializeApiKey(key) \o SerializeApiKeysClose
SerializeOf(kind, key) ==
    CASE kind = "ApiKey" -> SerializeApiKey(key)
      [] kind = "ApiKeys" -> SerializeApiKeys(key)
      [] kind = "AppConfig" ->
            SerializeAppOpen \o SerializeApiKeys(key) \o SerializeAppClose

InitConfig ==
    /\ fArgs \in [kind : ConfigKinds, a : ApiKeyValues, b : ApiKeyValues]
    /\ fResult = NotCalled
    /\ ExtractIdle /\ StateIdle /\ BufIdle /\ RunIdle /\ JitterIdle /\ TtsIdle
    /\ RetryIdle /\ StatusIdle /\ PipeIdle /\ AudioIdle /\ PollIdle

\* format!("{:?}", value) for the value holding key a and for the one
\* holding key b
DebugCall ==
    /\ fResult = NotCalled
    /\ fResult' = [ok |-> TRUE, value |-> "Debug",
                   a |-> DebugOf(fArgs.kind, fArgs.a),
                   b |-> DebugOf(fArgs.kind, fArgs.b)]
    /\ UNCHANGED fArgs
    /\ CallOthersUnchanged

\* serde_json::to_string(&value) for the same two values
SerializeCall ==
    /\ fResult = NotCalled
    /\ fArgs.kind # "PipelineConfig"
    /\ fResult' = [ok |-> TRUE, value |-> "Serialize",
                   a |-> SerializeOf(fArgs.kind, fArgs.a),
                   b |-> SerializeOf(fArgs.kind, fArgs.b)]
    /\ UNCHANGED fArgs
    /\ CallOthersUnchanged

NextConfig == DebugCall \/ SerializeCall

SpecConfig == InitConfig /\ [][NextConfig]_vars

\* C34 as stated: the Debug outputs for any two keys are identical and
\* contain neither key.
C34_Original ==
    fResult.value = "Debug" =>
        /\ fResult.a = fResult.b
        /\ ~IsSubstring(fArgs.a, fResult.a)
        /\ ~IsSubstring(fArgs.b, fResult.b)

\* C34: the Debug output of ApiKey, and of ApiKeys, PipelineConfig and
\* AppConfig holding it, is the same for any two keys: the key's place is
\* taken by the fixed text ApiKey(**redacted**), so the output contains a
\* key's text only where the output for every other key contains it too.
C34_DebugIndependentOfKey ==
    fResult.value = "Debug" =>
        /\ fResult.a = fResult.b
        /\ IsSubstring(DebugApiKey(fArgs.a), fResult.a)
        /\ \A k \in ApiKeyValues :
              IsSubstring(k, fResult.a) <=> IsSubstring(k, fResult.b)

\* C34 witness: an AppConfig is printed for two different keys, and neither
\* key occurs in the output.
C34_Witness ==
    /\ fResult.value = "Debug" /\ fArgs.kind = "AppConfig"
    /\ fArgs.a = <<"x", "d">> /\ fArgs.b = <<"x", "x">>
    /\ ~IsSubstring(fArgs.a, fResult.a) /\ ~IsSubstring(fArgs.b, fResult.a)

\* C35: the serialized form of an ApiKey, or of an ApiKeys or AppConfig
\* value holding one, does not contain the key.
C35_SerializedFormHidesKey ==
    fResult.value = "Serialize" => ~IsSubstring(fArgs.a, fResult.a)

\* ================================================================
\* Specification SpecRing: util/ring_buffer.rs, a RingBuffer under an
\* arbitrary sequence of pushes. fArgs holds the buffer's fields and the
\* history of pushed values, fResult what the latest push returned.
\* ================================================================
MaxRingCap == 3       \* largest capacity
MaxRingPushes == 5    \* most pushes onto one buffer

RingValues == {1, 2, 3}

\* RingBuffer::new, lines 9-18 (capacity > 0 is asserted); slots are indexed
\* from 0 as in the Vec
RingNew(capacity) ==
    [buf |-> [i \in 0..(capacity - 1) |-> None], head |-> 0, len |-> 0]
RingCapacity(rb) == Cardinality(DOMAIN rb.buf)
RingLen(rb) == rb.len

\* a push that overwrites without advancing head
RingPushKeepHead(rb, value) ==
    LET capacity == RingCapacity(rb)
        idx == (rb.head + rb.len) % capacity
    IN  IF rb.len < capacity
        THEN [rb  |-> [rb EXCEPT !.buf[idx] = value, !.len = rb.len + 1],
              ret |-> None]
        ELSE [rb  |-> [rb EXCEPT !.buf[rb.head] = value],
              ret |-> rb.buf[rb.head]]
\* RingBuffer::push, lines 32-46: the buffer afterwards and the return value
RingPush(rb, value) ==
    LET capacity == RingCapacity(rb)
        idx == (rb.head + rb.len) % capacity
    IN  IF rb.len < capacity
        THEN [rb  |-> [rb EXCEPT !.buf[idx] = value, !.len = rb.len + 1],
              ret |-> None]
        ELSE [rb  |-> [rb EXCEPT !.buf[rb.head] = value,
                                 !.head = (rb.head + 1) % capacity],
              ret |-> rb.buf[rb.head]]

\* RingBuffer::get, lines 48-55
RingGet(rb, index_from_oldest) ==
    IF index_from_oldest >= rb.len
    THEN None
    ELSE rb.buf[(rb.head + index_from_oldest) % RingCapacity(rb)]
IsSome(x) == x # None
\* RingBuffer::iter, lines 57-59: (0..len).filter_map(get)
RingIter(rb) == SelectSeq([i \in 1..rb.len |-> RingGet(rb, i - 1)], IsSome)

InitRing ==
    /\ \E capacity \in 1..MaxRingCap :
          fArgs = [rb |-> RingNew(capacity), pushed |-> <<>>]
    /\ fResult = NotCalled
    /\ ExtractIdle /\ StateIdle /\ BufIdle /\ RunIdle /\ JitterIdle /\ TtsIdle
    /\ RetryIdle /\ StatusIdle /\ PipeIdle /\ AudioIdle /\ PollIdle

RingPushCall ==
    /\ Len(fArgs.pushed) < MaxRingPushes
    /\ \E value \in RingValues :
          /\ fArgs' = [rb |-> RingPush(fArgs.rb, value).rb,
                       pushed |-> Append(fArgs.pushed, value)]
          /\ fResult' = [ok |-> TRUE, value |-> RingPush(fArgs.rb, value).ret]
    /\ CallOthersUnchanged

SpecRing == InitRing /\ [][RingPushCall]_vars

\* C36: after k pushes onto a RingBuffer of capacity c, len() is min(k, c),
\* iter() yields the last min(k, c) pushed values from oldest to newest, and
\* the latest push returned the value pushed c pushes earlier when the buffer
\* was full and None when it was not.
C36_BoundedFifoWindow ==
    LET k == Len(fArgs.pushed)
        c == RingCapacity(fArgs.rb)
        n == Min(k, c)
    IN  /\ RingLen(fArgs.rb) = n
        /\ n <= c
        /\ RingIter(fArgs.rb) = SubSeq(fArgs.pushed, k - n + 1, k)
        /\ fResult.ok =>
              fResult.value = IF k > c THEN fArgs.pushed[k - c] ELSE None

\* C36 witness: capacity 2 after the pushes 1, 2, 3, 1: the buffer has
\* wrapped twice, holds 3, 1 and the latest push returned the overwritten 2.
C36_Witness ==
    /\ RingCapacity(fArgs.rb) = 2
    /\ fArgs.pushed = <<1, 2, 3, 1>>
    /\ RingIter(fArgs.rb) = <<3, 1>>
    /\ fArgs.rb.head = 0
    /\ fResult.ok /\ fResult.value = 2

\* ================================================================
\* retry_with_backoff with every RetryConfig, max_attempts = 0 included
\* (specification SpecRetry)
\* ================================================================

\* C37: for every RetryConfig, max_attempts = 0 included, retry_with_backoff
\* returns a Result and never panics, and it has invoked the operation at
\* least once when it returns an error.
C37_ReturnsResultForEveryConfig ==
    Returned =>
        /\ rResult # Panic
        /\ rResult.kind = "Err" => Invocations >= 1

\* ================================================================
\* What Pipeline::run returns when a task ended with an error
\* (specification SpecPipe)
\* ================================================================

\* C38: when the ingestor task, or any stage task, returned
\* Err(ChannelClosed), Pipeline::run does not return Ok(()).
C38_RunSurfacesTaskErrors ==
    pRun = "Ok" => \A st \in Stages : pPc[st] # "err"

\* ================================================================
\* Specification SpecTwitch: the polling loop of
\* TwitchHlsIngestor::process_playlist (ingest/twitch.rs lines 326-383)
\* against a live media playlist whose window of segments slides. A segment
\* is named by its media sequence number, which also stands for its URL.
\* fArgs holds the server's playlist and the locals of process_playlist,
\* fResult what process_playlist returned.
\* ================================================================
MaxWindow == 2        \* most segments in the playlist
MaxTwitchSeg == 4     \* the last segment the server publishes
MaxPolls == 3         \* most polls of the playlist

\* the playlist of n segments starting with segment first
Window(first, n) == [i \in 1..n |-> first + i - 1]

\* lines 351-353: last_segment_url.as_ref() == Some(&segment_url)
SkipsSegment(segment_url, last_segment_url) ==
    last_segment_url = segment_url

\* lines 345-374, the first n turns of `for segment in &playlist.segments`
\* with every fetch and send succeeding: st holds sequence,
\* last_segment_url and the items given to tx.send
RECURSIVE ProcessSegments(_, _, _)
ProcessSegments(segments, n, st) ==
    IF n = 0
    THEN st
    ELSE LET before == ProcessSegments(segments, n - 1, st)
             segment_url == segments[n]
         IN  IF SkipsSegment(segment_url, before.last_segment_url)
             THEN before
             ELSE [sequence |-> before.sequence + 1,
                   last_segment_url |-> segment_url,
                   sent |-> Append(before.sent,
                                   [sequence |-> before.sequence,
                                    url |-> segment_url])]

\* lines 289-290 and the first playlist the server offers
InitTwitch ==
    /\ \E n \in 1..MaxWindow :
          fArgs = [segments |-> Window(1, n), polls |-> 0,
                   locals |-> [sequence |-> 0, last_segment_url |-> None,
                               sent |-> <<>>]]
    /\ fResult = NotCalled
    /\ ExtractIdle /\ StateIdle /\ BufIdle /\ RunIdle /\ JitterIdle /\ TtsIdle
    /\ RetryIdle /\ StatusIdle /\ PipeIdle /\ AudioIdle /\ PollIdle

\* the server publishes new segments and drops as many old ones
ServerSlide(by) ==
    /\ fResult = NotCalled
    /\ fArgs.segments[Len(fArgs.segments)] + by <= MaxTwitchSeg
    /\ fArgs' = [fArgs EXCEPT
                    !.segments = Window(fArgs.segments[1] + by,
                                        Len(fArgs.segments))]
    /\ UNCHANGED fResult
    /\ CallOthersUnchanged

\* lines 326-382, one turn of the loop in which every request succeeds
TwitchPoll ==
    /\ fResult = NotCalled
    /\ fArgs.polls < MaxPolls
    /\ fArgs' = [fArgs EXCEPT
                    !.polls = @ + 1,
                    !.locals = ProcessSegments(fArgs.segments,
                                               Len(fArgs.segments), @)]
    /\ UNCHANGED fResult
    /\ CallOthersUnchanged

\* one turn of the loop that ends process_playlist: the playlist request
\* fails (line 327, n = 0 and e = "Http"), or after n segments the segment
\* request fails (line 357) or the sink is closed (lines 367-369)
TwitchPollErr(n, e) ==
    /\ fResult = NotCalled
    /\ fArgs.polls < MaxPolls
    /\ n < Len(fArgs.segments)
    /\ LET st == ProcessSegments(fArgs.segments, n, fArgs.locals)
       IN  /\ \/ n = 0 /\ e = "Http"
              \/ ~SkipsSegment(fArgs.segments[n + 1], st.last_segment_url)
           /\ fArgs' = [fArgs EXCEPT !.polls = @ + 1, !.locals = st]
    /\ fResult' = [ok |-> FALSE, value |-> e]
    /\ CallOthersUnchanged

NextTwitch ==
    \/ \E by \in 1..MaxWindow : ServerSlide(by)
    \/ TwitchPoll
    \/ \E n \in 0..(MaxWindow - 1), e \in {"Http", "NotImplemented"} :
          TwitchPollErr(n, e)

SpecTwitch == InitTwitch /\ [][NextTwitch]_vars

\* C39: process_playlist sends each segment at most once across polls with
\* overlapping windows, and the sequence of the sent items goes up by
\* exactly one per distinct segment.
C39_EachSegmentSentOnce ==
    LET sent == fArgs.locals.sent
    IN  /\ \A i, j \in 1..Len(sent) : sent[i].url = sent[j].url => i = j
        /\ \A i \in 1..Len(sent) : sent[i].sequence = i - 1
        /\ fArgs.locals.sequence =
              Cardinality({sent[i].url : i \in 1..Len(sent)})

\* ================================================================
\* Specification SpecPoller: MediaPlaylistPoller::poll_once with its
\* next_sleep, and the poller task of TwitchHlsIngestor::run around it
\* (ingest/mod.rs lines 136-153, 298-331). Durations are in milliseconds.
\* One turn of the task's loop is a poll step followed by a sleep step; the
\* fetcher task appears only as the pops it makes from the jitter buffer.
\* ================================================================
MinPollInterval == 200      \* TwitchIngestOptions::default
MaxPollInterval == 2000

\* EXT-X-TARGETDURATION of a polled playlist, in seconds
TargetDurations == {0, 2, 6}
\* what the request of poll_once brings back: an error of fetch_text_bytes,
\* of parse_playlist, a master playlist, or a media playlist
PreExtractionErrors == {"Http", "HlsParse", "ExpectedMediaPlaylist"}
Fetched ==
    {[kind |-> e, mp |-> NoPlaylist, target_duration |-> 0] :
        e \in PreExtractionErrors}
    \cup {[kind |-> "Media", mp |-> mp, target_duration |-> t] :
            mp \in RunPlaylists, t \in TargetDurations}

\* compute_poll_interval, lines 614-619
ComputePollInterval(target_duration, min, max) ==
    Clamp(Max(1, (target_duration * 1000) \div 2), min, max)

\* Variant: a failed request puts next_sleep back to min_poll_interval.
PollOnceResetSleep(poller, fetched) ==
    IF fetched.kind \in PreExtractionErrors
    THEN [poller |-> [poller EXCEPT !.next_sleep = MinPollInterval],
          err |-> fetched.kind, out |-> <<>>]
    ELSE LET r == ExtractNewSegments(poller.next_sequence, poller.backlog,
                                     fetched.mp)
         IN  [poller |-> [poller EXCEPT
                  !.next_sleep =
                      ComputePollInterval(fetched.target_duration,
                                          MinPollInterval, MaxPollInterval),
                  !.next_sequence = r.next],
              err |-> IF r.ok THEN "none" ELSE "Url", out |-> r.out]
\* poll_once, lines 313-326: the poller afterwards and the Result returned
PollOnceOf(poller, fetched) ==
    IF fetched.kind \in PreExtractionErrors
    THEN [poller |-> poller, err |-> fetched.kind, out |-> <<>>]
    ELSE LET r == ExtractNewSegments(poller.next_sequence, poller.backlog,
                                     fetched.mp)
         IN  [poller |-> [poller EXCEPT
                  !.next_sleep =
                      ComputePollInterval(fetched.target_duration,
                                          MinPollInterval, MaxPollInterval),
                  !.next_sequence = r.next],
              err |-> IF r.ok THEN "none" ELSE "Url", out |-> r.out]

\* lines 145-147: for s in segments { buf.push_drop_oldest(s) }
RECURSIVE PushAllDropOldest(_, _, _)
PushAllDropOldest(q, segments, c) ==
    IF segments = <<>>
    THEN q
    ELSE PushAllDropOldest(PushDropOldest(q, Head(segments), c),
                           Tail(segments), c)

\* the MediaPlaylistPoller of the poller task
Poller ==
    [next_sequence |-> next_sequence, backlog |-> initial_backlog_segments,
     next_sleep |-> next_sleep]

PollerOthersUnchanged ==
    /\ UNCHANGED <<initial_backlog_segments, cap, permit, pending, fetcherPc,
                   seg, chan, closed, shutdown, lastSent, lastFetchErr>>
    /\ UNCHANGED <<extractVars, jitterVars, ttsVars, retryVars, statusVars,
                   pipeVars, audioVars, callVars>>

\* MediaPlaylistPoller::new, lines 298-311, and the empty jitter buffer
InitPoller ==
    /\ next_sequence = None
    /\ initial_backlog_segments \in 0..MaxBacklog
    /\ next_sleep = MinPollInterval
    /\ cap \in 1..MaxCap
    /\ buf = <<>> /\ permit = FALSE
    /\ pollerPc = "poll" /\ pending = <<>>
    /\ fetcherPc = "idle" /\ seg = NoSeg
    /\ chan = <<>> /\ closed = FALSE /\ shutdown = FALSE
    /\ lastSent = None /\ lastPollErr = "none" /\ lastFetchErr = FALSE
    /\ ExtractIdle /\ JitterIdle /\ TtsIdle
    /\ RetryIdle /\ StatusIdle /\ PipeIdle /\ AudioIdle /\ CallIdle

\* lines 142-151: poll_once and the match on its Result
PollStep(fetched) ==
    /\ pollerPc = "poll"
    /\ LET r == PollOnceOf(Poller, fetched)
       IN  /\ next_sequence' = r.poller.next_sequence
           /\ next_sleep' = r.poller.next_sleep
           /\ lastPollErr' = r.err
           /\ buf' = PushAllDropOldest(buf, r.out, cap)
    /\ pollerPc' = "sleep"
    /\ PollerOthersUnchanged

\* line 152: sleep_until_next returns after next_sleep
SleepUntilNext ==
    /\ pollerPc = "sleep"
    /\ pollerPc' = "poll"
    /\ UNCHANGED <<next_sequence, next_sleep, buf, lastPollErr>>
    /\ PollerOthersUnchanged

\* the fetcher task takes the oldest segment out of the jitter buffer
FetcherPops ==
    /\ buf # <<>>
    /\ buf' = Tail(buf)
    /\ UNCHANGED <<next_sequence, next_sleep, pollerPc, lastPollErr>>
    /\ PollerOthersUnchanged

NextPoller ==
    \/ \E fetched \in Fetched : PollStep(fetched)
    \/ SleepUntilNext
    \/ FetcherPops

SpecPoller == InitPoller /\ [][NextPoller]_vars

\* the poll of this step failed before extract_new_segments
PollFailedEarly ==
    pollerPc = "poll" /\ pollerPc' = "sleep"
        /\ lastPollErr' \in PreExtractionErrors

\* C40: a poll that fails before segment extraction pushes nothing into
\* the jitter buffer and keeps next_sequence and next_sleep, so that the
\* next poll returns, for every answer of the server, what it would have
\* returned without the failed poll.
C40_FailedPollChangesNothing ==
    [][PollFailedEarly =>
          /\ UNCHANGED <<next_sequence, next_sleep, buf,
                         initial_backlog_segments>>
          /\ \A fetched \in Fetched :
                PollOnceOf(Poller', fetched) = PollOnceOf(Poller, fetched)]_vars

\* C40 witness: a poll has just failed on a Live poller whose next_sleep an
\* earlier poll had moved away from min_poll_interval, with segments waiting
\* in the jitter buffer.
C40_Witness ==
    /\ pollerPc = "sleep" /\ lastPollErr = "HlsParse"
    /\ next_sequence = 3 /\ next_sleep = 1000
    /\ Len(buf) = 2

====
